---------------------------- MODULE Spec2Model ----------------------------
(***************************************************************************)
(* A model of the simple-ray-tracer core: Interval, AABB, Sphere, Quad,     *)
(* HittableList, BVHNode and the Camera's ray_color and render.            *)
(*                                                                         *)
(* Numbers.  The program computes in f64.  The model computes in exact     *)
(* extended rationals [n, d] (n/d in lowest terms, d > 0), with +inf =     *)
(* [1, 0], -inf = [-1, 0] and NaN = [0, 0], and follows the IEEE rules     *)
(* for the special values (x/0, inf-inf, 0*inf, comparisons with NaN,      *)
(* f64::min and f64::max ignoring a NaN operand).  Rounding is not         *)
(* modelled, and zero is unsigned: the one division by a possibly zero     *)
(* value whose sign could matter is the slab division of AABB::hit, which  *)
(* orders its two quotients with min and max and so is symmetric in it.    *)
(* sqrt is exact on squares of rationals and rounds down otherwise; the    *)
(* inputs of the geometric specifications are drawn so that every square   *)
(* root taken is exact.                                                    *)
(***************************************************************************)
EXTENDS Integers, Sequences, FiniteSets, TLC

(***************************************************************************)
(* f64                                                                     *)
(***************************************************************************)
Abs(x) == IF x < 0 THEN -x ELSE x

Sgn(x) == IF x > 0 THEN 1 ELSE IF x < 0 THEN -1 ELSE 0

\* TLC evaluates the argument of an operator at each of its uses; a bound
\* variable holds a value, so Gcd and F bind what they use more than once.
RECURSIVE Gcd(_, _)
Gcd(a, b) == IF b = 0 THEN a ELSE CHOOSE g \in {Gcd(b, r) : r \in {a % b}} : TRUE

Lowest(n, d) ==
    IF d = 0 THEN [n |-> Sgn(n), d |-> 0]
    ELSE CHOOSE f \in {[n |-> n \div g, d |-> d \div g] : g \in {Gcd(Abs(n), d)}} : TRUE

\* The f64 value n/d (d >= 0), in lowest terms.
F(n, d) == CHOOSE f \in {Lowest(p[1], p[2]) : p \in {<<n, d>>}} : TRUE

I(k) == [n |-> k, d |-> 1]

Zero == I(0)
One == I(1)
Inf == [n |-> 1, d |-> 0]
NegInf == [n |-> -1, d |-> 0]
NaN == [n |-> 0, d |-> 0]

IsNaN(a) == a.n = 0 /\ a.d = 0
IsFinite(a) == a.d > 0

FNeg(a) == [n |-> -a.n, d |-> a.d]

FAdd(a, b) ==
    IF IsNaN(a) \/ IsNaN(b) THEN NaN
    ELSE IF a.d = 0 /\ b.d = 0 THEN (IF a.n = b.n THEN a ELSE NaN)
    ELSE IF a.d = 0 THEN a
    ELSE IF b.d = 0 THEN b
    ELSE LET g == Gcd(a.d, b.d)
         IN  F(a.n * (b.d \div g) + b.n * (a.d \div g), (a.d \div g) * b.d)

FSub(a, b) == FAdd(a, FNeg(b))

FMul(a, b) ==
    IF IsNaN(a) \/ IsNaN(b) THEN NaN
    ELSE IF a.d = 0 \/ b.d = 0 THEN F(Sgn(a.n) * Sgn(b.n), 0)
    ELSE LET g1 == Gcd(Abs(a.n), b.d)
             g2 == Gcd(Abs(b.n), a.d)
         IN  F((a.n \div g1) * (b.n \div g2), (a.d \div g2) * (b.d \div g1))

FDiv(a, b) ==
    IF IsNaN(a) \/ IsNaN(b) THEN NaN
    ELSE IF b.d = 0 THEN (IF a.d = 0 THEN NaN ELSE Zero)
    ELSE IF b.n = 0 THEN F(Sgn(a.n), 0)
    ELSE IF a.d = 0 THEN F(a.n * Sgn(b.n), 0)
    ELSE FMul(a, [n |-> Sgn(b.n) * b.d, d |-> Abs(b.n)])

FLt(a, b) ==
    /\ ~IsNaN(a)
    /\ ~IsNaN(b)
    /\ IF a.d = 0 /\ b.d = 0 THEN a.n < b.n
       ELSE LET g == Gcd(a.d, b.d)
            IN  a.n * (b.d \div g) < b.n * (a.d \div g)

FEq(a, b) == ~IsNaN(a) /\ ~IsNaN(b) /\ a = b

FLe(a, b) == FLt(a, b) \/ FEq(a, b)

\* f64::min and f64::max: a NaN operand is ignored.
FMin(a, b) == IF IsNaN(a) THEN b ELSE IF IsNaN(b) THEN a ELSE IF FLt(b, a) THEN b ELSE a

FMax(a, b) == IF IsNaN(a) THEN b ELSE IF IsNaN(b) THEN a ELSE IF FLt(a, b) THEN b ELSE a

FAbs(a) == [n |-> Abs(a.n), d |-> a.d]

RECURSIVE Newton(_, _)
Newton(n, x) == LET y == (x + n \div x) \div 2 IN IF y >= x THEN x ELSE Newton(n, y)

\* The integer square root, rounded down.
ISqrt(n) == IF n = 0 THEN 0 ELSE Newton(n, n)

\* f64::sqrt: exact on the square of a rational, rounded down to a multiple
\* of 1/d otherwise.
FSqrt(a) ==
    IF IsNaN(a) \/ a.n < 0 THEN NaN
    ELSE IF a.d = 0 THEN Inf
    ELSE IF ISqrt(a.n) * ISqrt(a.n) = a.n /\ ISqrt(a.d) * ISqrt(a.d) = a.d
         THEN F(ISqrt(a.n), ISqrt(a.d))
    ELSE F(ISqrt(a.n * a.d), a.d)

\* The square root the model takes of a is the exact one.
ExactSqrt(a) == IsFinite(a) /\ a.n >= 0 /\ FMul(FSqrt(a), FSqrt(a)) = a

(***************************************************************************)
(* Vec3 / Point3                                                           *)
(***************************************************************************)
Vec3(x, y, z) == [x |-> x, y |-> y, z |-> z]

\* A vector of integer components.
V(x, y, z) == Vec3(I(x), I(y), I(z))

VAdd(a, b) == Vec3(FAdd(a.x, b.x), FAdd(a.y, b.y), FAdd(a.z, b.z))

VSub(a, b) == Vec3(FSub(a.x, b.x), FSub(a.y, b.y), FSub(a.z, b.z))

VNeg(a) == Vec3(FNeg(a.x), FNeg(a.y), FNeg(a.z))

VScale(s, a) == Vec3(FMul(s, a.x), FMul(s, a.y), FMul(s, a.z))

VMul(a, b) == Vec3(FMul(a.x, b.x), FMul(a.y, b.y), FMul(a.z, b.z))

VDiv(a, s) == Vec3(FDiv(a.x, s), FDiv(a.y, s), FDiv(a.z, s))

Dot(a, b) == FAdd(FAdd(FMul(a.x, b.x), FMul(a.y, b.y)), FMul(a.z, b.z))

Cross(a, b) ==
    Vec3(FSub(FMul(a.y, b.z), FMul(a.z, b.y)),
         FSub(FMul(a.z, b.x), FMul(a.x, b.z)),
         FSub(FMul(a.x, b.y), FMul(a.y, b.x)))

LengthSquared(a) == Dot(a, a)

Length(a) == FSqrt(LengthSquared(a))

UnitVector(a) == VDiv(a, Length(a))

(***************************************************************************)
(* Ray                                                                     *)
(***************************************************************************)
Ray(origin, direction, time) == [origin |-> origin, direction |-> direction, time |-> time]

At(ray, scalar) == VAdd(ray.origin, VScale(scalar, ray.direction))

(***************************************************************************)
(* Interval                                                                *)
(***************************************************************************)
Interval(min, max) == [min |-> min, max |-> max]

IntervalEmpty == Interval(Inf, NegInf)

IntervalUniverse == Interval(NegInf, Inf)

\* A slip in from_intervals: the upper end taken from b.min.
FromIntervalsSlip(a, b) == Interval(FMin(a.min, b.min), FMax(a.max, b.min))

FromIntervals(a, b) == Interval(FMin(a.min, b.min), FMax(a.max, b.max))

Size(i) == FSub(i.max, i.min)

Contains(i, x) == FLe(i.min, x) /\ FLe(x, i.max)

Surrounds(i, x) == FLt(i.min, x) /\ FLt(x, i.max)

\* A slip in expand: only the upper end is moved.
ExpandUpperOnly(i, delta) ==
    LET padding == FDiv(delta, I(2))
    IN  Interval(i.min, FAdd(i.max, padding))

Expand(i, delta) ==
    LET padding == FDiv(delta, I(2))
    IN  Interval(FSub(i.min, padding), FAdd(i.max, padding))

(***************************************************************************)
(* AABB                                                                    *)
(***************************************************************************)
\* delta of AABB::pad_to_minimum, 0.0001
Delta == F(1, 10000)

PadToMinimum(i) == IF FLt(Size(i), Delta) THEN Expand(i, Delta) ELSE i

AabbNew(x, y, z) == [x |-> PadToMinimum(x), y |-> PadToMinimum(y), z |-> PadToMinimum(z)]

AabbEmpty == [x |-> IntervalEmpty, y |-> IntervalEmpty, z |-> IntervalEmpty]

Union(a, b) ==
    [x |-> FromIntervals(a.x, b.x),
     y |-> FromIntervals(a.y, b.y),
     z |-> FromIntervals(a.z, b.z)]

MakeInterval(a, b) == Interval(FMin(a, b), FMax(a, b))

FromExtremes(a, b) ==
    AabbNew(MakeInterval(a.x, b.x), MakeInterval(a.y, b.y), MakeInterval(a.z, b.z))

\* One pass of the loop of AABB::hit: the slab of one axis against t.
\* A slip in AABB::hit: t0 is taken for the entry and t1 for the exit, also
\* when the direction is negative.
SlabAxisUnordered(interval, direction, origin, t) ==
    LET Cut(t0, t1) == ~FLe(FMin(t.max, t1), FMax(t.min, t0))
    IN  Cut(FDiv(FSub(interval.min, origin), direction),
            FDiv(FSub(interval.max, origin), direction))

SlabAxis(interval, direction, origin, t) ==
    LET Cut(t0, t1) ==
            ~FLe(FMin(t.max, FMax(t0, t1)), FMax(t.min, FMin(t0, t1)))
    IN  Cut(FDiv(FSub(interval.min, origin), direction),
            FDiv(FSub(interval.max, origin), direction))

AabbHit(box, ray, t) ==
    /\ SlabAxis(box.x, ray.direction.x, ray.origin.x, t)
    /\ SlabAxis(box.y, ray.direction.y, ray.origin.y, t)
    /\ SlabAxis(box.z, ray.direction.z, ray.origin.z, t)

\* The box of HittableList::new().
HittableListNewBox == [x |-> IntervalEmpty, y |-> IntervalEmpty, z |-> IntervalEmpty]

(***************************************************************************)
(* HitRecord                                                               *)
(***************************************************************************)
NoHit == [hit |-> FALSE]

IsHit(r) == r.hit

HitRecord(point, normal, material, t, u, v, front_face) ==
    [hit |-> TRUE, point |-> point, normal |-> normal, material |-> material,
     t |-> t, u |-> u, v |-> v, front_face |-> front_face]

\* A slip in set_face_normal: the normal is stored as it was given.
SetFaceNormalKeepsOutward(record, ray, normal) ==
    [record EXCEPT !.front_face = FLt(Dot(ray.direction, normal), Zero),
                   !.normal = normal]

SetFaceNormal(record, ray, normal) ==
    LET Facing(front_face) ==
            [record EXCEPT !.front_face = front_face,
                           !.normal = IF front_face THEN normal ELSE VNeg(normal)]
    IN  Facing(FLt(Dot(ray.direction, normal), Zero))

(***************************************************************************)
(* Sphere                                                                  *)
(***************************************************************************)
\* A slip in Sphere::stationary: the radius is stored as it was given.
SphereStationaryUnclamped(center, radius, material) ==
    LET rvec == Vec3(radius, radius, radius)
    IN  [kind |-> "sphere",
         center |-> Ray(center, V(0, 0, 0), Zero),
         radius |-> radius,
         material |-> material,
         bbox |-> FromExtremes(VSub(center, rvec), VAdd(center, rvec))]

SphereStationary(center, radius, material) ==
    LET rvec == Vec3(radius, radius, radius)
    IN  [kind |-> "sphere",
         center |-> Ray(center, V(0, 0, 0), Zero),
         radius |-> FMax(radius, Zero),
         material |-> material,
         bbox |-> FromExtremes(VSub(center, rvec), VAdd(center, rvec))]

\* A slip in Sphere::moving: the box is the one of the sphere at time 0.
SphereMovingStartBox(start, end, radius, material) ==
    LET rvec == Vec3(radius, radius, radius)
    IN  [kind |-> "sphere",
         center |-> Ray(start, VSub(end, start), Zero),
         radius |-> FMax(radius, Zero),
         material |-> material,
         bbox |-> FromExtremes(VSub(start, rvec), VAdd(start, rvec))]

SphereMoving(start, end, radius, material) ==
    LET rvec == Vec3(radius, radius, radius)
        box1 == FromExtremes(VSub(start, rvec), VAdd(start, rvec))
        box2 == FromExtremes(VSub(end, rvec), VAdd(end, rvec))
    IN  [kind |-> "sphere",
         center |-> Ray(start, VSub(end, start), Zero),
         radius |-> FMax(radius, Zero),
         material |-> material,
         bbox |-> Union(box1, box2)]

\* get_sphere_uv takes acos and atan2 of the unit normal: the model keeps
\* the two coordinates as terms over the point they are taken of.
GetSphereUv(point) == [u |-> [phi_over_2pi |-> point], v |-> [theta_over_pi |-> point]]

\* The values Sphere::hit computes one after the other are the parameters
\* of the local operators, each applied once to the value it stands for.

\* h * h - a * c of Sphere::hit
Discriminant(sphere, ray) ==
    LET Quadratic(a, h, c) == FSub(FMul(h, h), FMul(a, c))
        From(oc) ==
            Quadratic(LengthSquared(ray.direction), Dot(ray.direction, oc),
                      FSub(LengthSquared(oc), FMul(sphere.radius, sphere.radius)))
    IN  From(VSub(At(sphere.center, ray.time), ray.origin))

\* Sphere::hit from "let t = root" on.
SphereRecord(sphere, ray, root) ==
    LET Record(point, normal) ==
            SetFaceNormal(
                HitRecord(point, normal, sphere.material, root,
                          GetSphereUv(normal).u, GetSphereUv(normal).v, FALSE),
                ray, normal)
        AtPoint(point) ==
            Record(point, VDiv(VSub(point, At(sphere.center, ray.time)), sphere.radius))
    IN  AtPoint(At(ray, root))

\* A slip in Sphere::hit: only the larger root is tried.
SphereHitFarRoot(sphere, ray, interval) ==
    LET Root(root) ==
            IF Surrounds(interval, root) THEN SphereRecord(sphere, ray, root) ELSE NoHit
        Roots(a, h, sqrtd) == Root(FDiv(FAdd(h, sqrtd), a))
        Solve(discriminant) ==
            IF FLt(discriminant, Zero) THEN NoHit
            ELSE Roots(LengthSquared(ray.direction),
                       Dot(ray.direction, VSub(At(sphere.center, ray.time), ray.origin)),
                       FSqrt(discriminant))
    IN  Solve(Discriminant(sphere, ray))

\* A slip in Sphere::hit: a root at an end of the interval is accepted.
SphereHitInclusive(sphere, ray, interval) ==
    LET Root(root1, root2) ==
            IF Contains(interval, root1) THEN SphereRecord(sphere, ray, root1)
            ELSE IF Contains(interval, root2) THEN SphereRecord(sphere, ray, root2)
            ELSE NoHit
        Roots(a, h, sqrtd) == Root(FDiv(FSub(h, sqrtd), a), FDiv(FAdd(h, sqrtd), a))
        Solve(discriminant) ==
            IF FLt(discriminant, Zero) THEN NoHit
            ELSE Roots(LengthSquared(ray.direction),
                       Dot(ray.direction, VSub(At(sphere.center, ray.time), ray.origin)),
                       FSqrt(discriminant))
    IN  Solve(Discriminant(sphere, ray))

SphereHit(sphere, ray, interval) ==
    LET Root(root1, root2) ==
            IF Surrounds(interval, root1) THEN SphereRecord(sphere, ray, root1)
            ELSE IF Surrounds(interval, root2) THEN SphereRecord(sphere, ray, root2)
            ELSE NoHit
        Roots(a, h, sqrtd) == Root(FDiv(FSub(h, sqrtd), a), FDiv(FAdd(h, sqrtd), a))
        Solve(discriminant) ==
            IF FLt(discriminant, Zero) THEN NoHit
            ELSE Roots(LengthSquared(ray.direction),
                       Dot(ray.direction, VSub(At(sphere.center, ray.time), ray.origin)),
                       FSqrt(discriminant))
    IN  Solve(Discriminant(sphere, ray))

(***************************************************************************)
(* Quad                                                                    *)
(***************************************************************************)
QuadSetBoundingBox(q, u, v) ==
    LET bbox1 == FromExtremes(q, VAdd(VAdd(q, u), v))
        bbox2 == FromExtremes(VAdd(q, u), VAdd(q, v))
    IN  Union(bbox1, bbox2)

QuadNew(q, u, v, material) ==
    LET Quad(n, normal) ==
            [kind |-> "quad", q |-> q, u |-> u, v |-> v,
             w |-> VDiv(n, Dot(n, n)),
             material |-> material,
             bbox |-> QuadSetBoundingBox(q, u, v),
             normal |-> normal,
             d |-> Dot(normal, q)]
        Plane(n) == Quad(n, UnitVector(n))
    IN  Plane(Cross(u, v))

\* 1e-8 of Quad::hit
Parallel == F(1, 100000000)

\* A slip in Quad::hit: a t at an end of the interval is rejected.
QuadHitStrict(quad, ray, interval) ==
    LET Record(t, intersection, alpha, beta) ==
            IF ~Contains(Interval(Zero, One), alpha) \/ ~Contains(Interval(Zero, One), beta)
            THEN NoHit
            ELSE SetFaceNormal(
                     HitRecord(intersection, quad.normal, quad.material, t, alpha, beta,
                               FALSE),
                     ray, quad.normal)
        Planar(t, intersection, p) ==
            Record(t, intersection,
                   Dot(quad.w, Cross(p, quad.v)), Dot(quad.w, Cross(quad.u, p)))
        AtPoint(t, intersection) == Planar(t, intersection, VSub(intersection, quad.q))
        AtT(t) == IF ~Surrounds(interval, t) THEN NoHit ELSE AtPoint(t, At(ray, t))
        Plane(denominator) ==
            IF FLt(FAbs(denominator), Parallel) THEN NoHit
            ELSE AtT(FDiv(FSub(quad.d, Dot(quad.normal, ray.origin)), denominator))
    IN  Plane(Dot(quad.normal, ray.direction))

QuadHit(quad, ray, interval) ==
    LET Record(t, intersection, alpha, beta) ==
            IF ~Contains(Interval(Zero, One), alpha) \/ ~Contains(Interval(Zero, One), beta)
            THEN NoHit
            ELSE SetFaceNormal(
                     HitRecord(intersection, quad.normal, quad.material, t, alpha, beta,
                               FALSE),
                     ray, quad.normal)
        Planar(t, intersection, p) ==
            Record(t, intersection,
                   Dot(quad.w, Cross(p, quad.v)), Dot(quad.w, Cross(quad.u, p)))
        AtPoint(t, intersection) == Planar(t, intersection, VSub(intersection, quad.q))
        AtT(t) == IF ~Contains(interval, t) THEN NoHit ELSE AtPoint(t, At(ray, t))
        Plane(denominator) ==
            IF FLt(FAbs(denominator), Parallel) THEN NoHit
            ELSE AtT(FDiv(FSub(quad.d, Dot(quad.normal, ray.origin)), denominator))
    IN  Plane(Dot(quad.normal, ray.direction))

(***************************************************************************)
(* HittableList and BVHNode                                                *)
(***************************************************************************)
HittableListNew == [kind |-> "list", objects |-> <<>>, bbox |-> HittableListNewBox]

HittableListClear(list) == [list EXCEPT !.objects = <<>>]

HittableListAdd(list, object) ==
    [list EXCEPT !.bbox = Union(list.bbox, object.bbox),
                 !.objects = Append(list.objects, object)]

BoundingBox(object) == object.bbox

RECURSIVE Hit(_, _, _)
RECURSIVE ListScan(_, _, _, _, _)
RECURSIVE BvhNodeHit(_, _, _)

RECURSIVE ListScanNoShrink(_, _, _, _, _)
\* A slip in HittableList::hit: closest_so_far is never lowered.
ListScanNoShrink(objects, ray, min, closest_so_far, result) ==
    LET Scan(record) ==
            ListScanNoShrink(Tail(objects), ray, min, closest_so_far,
                             IF IsHit(record) THEN record ELSE result)
    IN  IF objects = <<>> THEN result
        ELSE Scan(Hit(Head(objects), ray, Interval(min, closest_so_far)))

\* The loop of HittableList::hit over the objects left to scan.
ListScan(objects, ray, min, closest_so_far, result) ==
    LET Scan(record) ==
            IF IsHit(record)
            THEN ListScan(Tail(objects), ray, min, record.t, record)
            ELSE ListScan(Tail(objects), ray, min, closest_so_far, result)
    IN  IF objects = <<>> THEN result
        ELSE Scan(Hit(Head(objects), ray, Interval(min, closest_so_far)))

\* A slip in HittableList::hit: closest_so_far starts at infinity.
HittableListHitUnbounded(list, ray, interval) ==
    ListScan(list.objects, ray, interval.min, Inf, NoHit)

HittableListHit(list, ray, interval) ==
    ListScan(list.objects, ray, interval.min, interval.max, NoHit)

\* A slip in BVHNode::hit: hit_left.or(hit_right).
BvhNodeHitPrefersLeft(node, ray, interval) ==
    LET Closest(hit_left, hit_right) == IF IsHit(hit_left) THEN hit_left ELSE hit_right
        Right(hit_left, closest_so_far) ==
            Closest(hit_left, Hit(node.right, ray, Interval(interval.min, closest_so_far)))
        Left(hit_left) ==
            Right(hit_left, IF IsHit(hit_left) THEN hit_left.t ELSE interval.max)
    IN  IF ~AabbHit(node.bbox, ray, interval) THEN NoHit
        ELSE Left(Hit(node.left, ray, interval))

BvhNodeHit(node, ray, interval) ==
    LET Closest(hit_left, hit_right) == IF IsHit(hit_right) THEN hit_right ELSE hit_left
        Right(hit_left, closest_so_far) ==
            Closest(hit_left, Hit(node.right, ray, Interval(interval.min, closest_so_far)))
        Left(hit_left) ==
            Right(hit_left, IF IsHit(hit_left) THEN hit_left.t ELSE interval.max)
    IN  IF ~AabbHit(node.bbox, ray, interval) THEN NoHit
        ELSE Left(Hit(node.left, ray, interval))

(***************************************************************************)
(* Translate, RotateY and ConstantMedium                                   *)
(***************************************************************************)
\* AABB + Vec3 of Translate::new: each interval moved by the component of
\* the offset on its axis.
AabbAdd(box, offset) ==
    LET Moved(i, by) == Interval(FAdd(i.min, by), FAdd(i.max, by))
    IN  [x |-> Moved(box.x, offset.x), y |-> Moved(box.y, offset.y),
         z |-> Moved(box.z, offset.z)]

TranslateNew(object, offset) ==
    [kind |-> "translate", object |-> object, offset |-> offset,
     bbox |-> AabbAdd(BoundingBox(object), offset)]

\* A slip in Translate::hit: the point is left in the frame of the child.
TranslateHitLocalPoint(translate, ray, interval) ==
    Hit(translate.object,
        Ray(VSub(ray.origin, translate.offset), ray.direction, ray.time), interval)

TranslateHit(translate, ray, interval) ==
    LET Back(record) ==
            IF IsHit(record)
            THEN [record EXCEPT !.point = VAdd(record.point, translate.offset)]
            ELSE NoHit
        Delegate(offset_ray) == Back(Hit(translate.object, offset_ray, interval))
    IN  Delegate(Ray(VSub(ray.origin, translate.offset), ray.direction, ray.time))

\* An angle theta is kept as the pair f64::sin and f64::cos return for
\* theta.to_radians().
Angle(sin_theta, cos_theta) == [sin |-> sin_theta, cos |-> cos_theta]

\* Vec3::min and Vec3::max of RotateY::new, component by component.
VMin(a, b) == Vec3(FMin(a.x, b.x), FMin(a.y, b.y), FMin(a.z, b.z))

VMax(a, b) == Vec3(FMax(a.x, b.x), FMax(a.y, b.y), FMax(a.z, b.z))

\* The eight corners of RotateY::new in the order of iproduct!, turned.
RotatedCorners(bbox, sin_theta, cos_theta) ==
    LET Corner(x, y, z) ==
            Vec3(FAdd(FMul(cos_theta, x), FMul(sin_theta, z)), y,
                 FAdd(FMul(FNeg(sin_theta), x), FMul(cos_theta, z)))
        Mix(k, i) == FAdd(FMul(I(k), i.max), FMul(I(1 - k), i.min))
        At8(n) == Corner(Mix(n \div 4, bbox.x), Mix((n \div 2) % 2, bbox.y),
                         Mix(n % 2, bbox.z))
    IN  [n \in 1..8 |-> At8(n - 1)]

RECURSIVE FoldCorners(_, _, _)
\* the fold of RotateY::new over the corners
FoldCorners(corners, min, max) ==
    IF corners = <<>> THEN <<min, max>>
    ELSE FoldCorners(Tail(corners), VMin(min, Head(corners)), VMax(max, Head(corners)))

RotateYNew(object, theta) ==
    LET Boxed(extremes) ==
            [kind |-> "rotate_y", object |-> object,
             sin_theta |-> theta.sin, cos_theta |-> theta.cos,
             bbox |-> FromExtremes(extremes[1], extremes[2])]
    IN  Boxed(FoldCorners(RotatedCorners(BoundingBox(object), theta.sin, theta.cos),
                          Vec3(Inf, Inf, Inf), Vec3(NegInf, NegInf, NegInf)))

RotateYHit(rotate, ray, interval) ==
    LET Forward(p) ==
            Vec3(FSub(FMul(rotate.cos_theta, p.x), FMul(rotate.sin_theta, p.z)), p.y,
                 FAdd(FMul(rotate.sin_theta, p.x), FMul(rotate.cos_theta, p.z)))
        Backward(p) ==
            Vec3(FAdd(FMul(rotate.cos_theta, p.x), FMul(rotate.sin_theta, p.z)), p.y,
                 FAdd(FMul(FNeg(rotate.sin_theta), p.x), FMul(rotate.cos_theta, p.z)))
        Back(record) ==
            IF IsHit(record)
            THEN [record EXCEPT !.point = Backward(record.point),
                                !.normal = Backward(record.normal)]
            ELSE NoHit
        Delegate(rotated_ray) == Back(Hit(rotate.object, rotated_ray, interval))
    IN  Delegate(Ray(Forward(ray.origin), Forward(ray.direction), ray.time))

\* Isotropic::new
IsotropicNew(texture) == [kind |-> "isotropic", texture |-> texture]

\* ConstantMedium::new.  ln_random is the value rand::random::<f64>().ln()
\* takes in the call of hit on this medium: a random number of [0, 1) has a
\* logarithm from -inf to 0.
ConstantMediumNew(boundary, density, texture, ln_random) ==
    [kind |-> "medium", boundary |-> boundary,
     negative_inverse_density |-> FDiv(FNeg(One), density),
     phase_function |-> IsotropicNew(texture),
     ln_random |-> ln_random,
     bbox |-> BoundingBox(boundary)]

\* 1e-4 of ConstantMedium::hit
ExitGap == F(1, 10000)

\* A slip in ConstantMedium::hit: the exit is not clamped to interval.max.
ConstantMediumHitUnclampedExit(medium, ray, interval) ==
    LET Sample(t1, t2, ray_length, hit_distance) ==
            IF FLt(FMul(FSub(t2, t1), ray_length), hit_distance) THEN NoHit
            ELSE HitRecord(At(ray, FAdd(t1, FDiv(hit_distance, ray_length))), V(1, 0, 0),
                           medium.phase_function,
                           FAdd(t1, FDiv(hit_distance, ray_length)), Zero, Zero, TRUE)
        Clamped(t1, t2) ==
            Sample(FMax(FMax(t1, interval.min), Zero), t2,
                   Length(ray.direction),
                   FMul(medium.negative_inverse_density, medium.ln_random))
        Exit(record1, record2) ==
            IF ~IsHit(record2) THEN NoHit ELSE Clamped(record1.t, record2.t)
        Entry(record1) ==
            IF ~IsHit(record1) THEN NoHit
            ELSE Exit(record1,
                      Hit(medium.boundary, ray, Interval(FAdd(record1.t, ExitGap), Inf)))
    IN  Entry(Hit(medium.boundary, ray, IntervalUniverse))

ConstantMediumHit(medium, ray, interval) ==
    LET Sample(t1, t2, ray_length, hit_distance) ==
            IF FLt(FMul(FSub(t2, t1), ray_length), hit_distance) THEN NoHit
            ELSE HitRecord(At(ray, FAdd(t1, FDiv(hit_distance, ray_length))), V(1, 0, 0),
                           medium.phase_function,
                           FAdd(t1, FDiv(hit_distance, ray_length)), Zero, Zero, TRUE)
        Clamped(t1, t2) ==
            Sample(FMax(FMax(t1, interval.min), Zero), FMin(t2, interval.max),
                   Length(ray.direction),
                   FMul(medium.negative_inverse_density, medium.ln_random))
        Exit(record1, record2) ==
            IF ~IsHit(record2) THEN NoHit ELSE Clamped(record1.t, record2.t)
        Entry(record1) ==
            IF ~IsHit(record1) THEN NoHit
            ELSE Exit(record1,
                      Hit(medium.boundary, ray, Interval(FAdd(record1.t, ExitGap), Inf)))
    IN  Entry(Hit(medium.boundary, ray, IntervalUniverse))

\* Hittable::hit, dispatched on the implementing type.
Hit(object, ray, interval) ==
    CASE object.kind = "sphere" -> SphereHit(object, ray, interval)
      [] object.kind = "quad" -> QuadHit(object, ray, interval)
      [] object.kind = "list" -> HittableListHit(object, ray, interval)
      [] object.kind = "bvh" -> BvhNodeHit(object, ray, interval)
      [] object.kind = "translate" -> TranslateHit(object, ray, interval)
      [] object.kind = "rotate_y" -> RotateYHit(object, ray, interval)
      [] object.kind = "medium" -> ConstantMediumHit(object, ray, interval)

\* max_by over the three sizes returns the last of several equal maxima.
LongestAxis(box) ==
    LET Longest(sx, sy, sz) ==
            IF FLe(sx, sz) /\ FLe(sy, sz) THEN 2
            ELSE IF FLe(sx, sy) THEN 1
            ELSE 0
    IN  Longest(Size(box.x), Size(box.y), Size(box.z))

\* The key of box_compare_x, box_compare_y, box_compare_z.
AxisMin(object, axis) ==
    IF axis = 0 THEN object.bbox.x.min
    ELSE IF axis = 1 THEN object.bbox.y.min
    ELSE object.bbox.z.min

RECURSIVE InsertSorted(_, _, _)
InsertSorted(sorted, object, axis) ==
    IF sorted = <<>> THEN <<object>>
    ELSE IF FLt(AxisMin(object, axis), AxisMin(Head(sorted), axis))
         THEN <<object>> \o sorted
         ELSE <<Head(sorted)>> \o InsertSorted(Tail(sorted), object, axis)

RECURSIVE SortBy(_, _)
\* slice::sort_by: a stable sort.
SortBy(objects, axis) ==
    IF objects = <<>> THEN <<>>
    ELSE LET n == Len(objects)
         IN  InsertSorted(SortBy(SubSeq(objects, 1, n - 1), axis), objects[n], axis)

\* objects[start..end].sort_by(comparator), indices counted from 0
SortRange(objects, start, end, axis) ==
    SubSeq(objects, 1, start)
        \o SortBy(SubSeq(objects, start + 1, end), axis)
        \o SubSeq(objects, end + 1, Len(objects))

RECURSIVE RangeBox(_, _, _)
\* (start..end).fold(AABB::empty(), union)
RangeBox(objects, start, end) ==
    IF start >= end THEN AabbEmpty
    ELSE Union(RangeBox(objects, start, end - 1), BoundingBox(objects[end]))

BvhNode(left, right, bbox) == [kind |-> "bvh", left |-> left, right |-> right, bbox |-> bbox]

\* The call never returns: the recursion does not end.
Diverges == [kind |-> "diverges"]

RECURSIVE FromHittableList(_, _, _)

\* A slip in from_hittable_list: the right half starts one after mid.
FromHittableListSkipsMid(objects, start, end) ==
    LET Node(bbox, l, r) == [node |-> BvhNode(l.node, r.node, bbox), objects |-> r.objects]
        Right(bbox, mid, l) == Node(bbox, l, FromHittableList(l.objects, mid + 1, end))
        Split(bbox, mid, sorted) == Right(bbox, mid, FromHittableList(sorted, start, mid))
        Build(bbox, span) ==
            IF span = 1
            THEN [node |-> BvhNode(objects[start + 1], objects[start + 1], bbox),
                  objects |-> objects]
            ELSE IF span = 2
            THEN [node |-> BvhNode(objects[start + 1], objects[start + 2], bbox),
                  objects |-> objects]
            ELSE IF span = 0
            THEN [node |-> Diverges, objects |-> objects]
            ELSE Split(bbox, start + span \div 2,
                       SortRange(objects, start, end, LongestAxis(bbox)))
    IN  Build(RangeBox(objects, start, end), end - start)

\* A slip in from_hittable_list: the range is split after its first object.
FromHittableListSplitsAtOne(objects, start, end) ==
    LET Node(bbox, l, r) == [node |-> BvhNode(l.node, r.node, bbox), objects |-> r.objects]
        Right(bbox, mid, l) == Node(bbox, l, FromHittableList(l.objects, mid, end))
        Split(bbox, mid, sorted) == Right(bbox, mid, FromHittableList(sorted, start, mid))
        Build(bbox, span) ==
            IF span = 1
            THEN [node |-> BvhNode(objects[start + 1], objects[start + 1], bbox),
                  objects |-> objects]
            ELSE IF span = 2
            THEN [node |-> BvhNode(objects[start + 1], objects[start + 2], bbox),
                  objects |-> objects]
            ELSE IF span = 0
            THEN [node |-> Diverges, objects |-> objects]
            ELSE Split(bbox, start + 1,
                       SortRange(objects, start, end, LongestAxis(bbox)))
    IN  Build(RangeBox(objects, start, end), end - start)

\* BVHNode::from_hittable_list: the node, and the list as the sorts left it.
\* start and end count from 0 as in the source.
FromHittableList(objects, start, end) ==
    LET Node(bbox, l, r) == [node |-> BvhNode(l.node, r.node, bbox), objects |-> r.objects]
        Right(bbox, mid, l) == Node(bbox, l, FromHittableList(l.objects, mid, end))
        Split(bbox, mid, sorted) == Right(bbox, mid, FromHittableList(sorted, start, mid))
        Build(bbox, span) ==
            IF span = 1
            THEN [node |-> BvhNode(objects[start + 1], objects[start + 1], bbox),
                  objects |-> objects]
            ELSE IF span = 2
            THEN [node |-> BvhNode(objects[start + 1], objects[start + 2], bbox),
                  objects |-> objects]
            ELSE IF span = 0
            \* mid = start: the first recursive call is this call again
            THEN [node |-> Diverges, objects |-> objects]
            ELSE Split(bbox, start + span \div 2,
                       SortRange(objects, start, end, LongestAxis(bbox)))
    IN  Build(RangeBox(objects, start, end), end - start)

BvhNodeNew(world) == FromHittableList(world.objects, 0, Len(world.objects))

(***************************************************************************)
(* State                                                                   *)
(***************************************************************************)
VARIABLES
    boxA,       \* the AABB value built last, with how it was obtained
    boxB,       \* the AABB value built before it
    slab,       \* the last AABB::hit call: box, ray, t and result
    list,       \* a HittableList under add and clear
    world,      \* the HittableList of the scene
    bvh,        \* the BVHNode built over world
    query,      \* the hit call in progress on world and bvh, with its results
    rcCall,     \* the outermost Camera::ray_color call: camera, depth, result
    rcStack,    \* the frames of ray_color, the innermost last
    rcHits,     \* world.hit calls made since the outermost call began
    camera,     \* the Camera of the render in progress
    pending,    \* the pixel indices no worker of the render has taken yet
    pixels,     \* the collected Vec<String> of the render, by index
    output,     \* what render has written to the output
    computed,   \* how often the render has computed each pixel index
    outOfOrder, \* a worker has finished a pixel before one of a lower index
    probe,      \* a Sphere::hit call: the sphere, the ray and the result
    call,       \* a call of one function: its name, arguments and result
    items,      \* the objects of a HittableList a BVH is built over
    tree        \* the BVHNode built over items

aabbVars == <<boxA, boxB>>
slabVars == <<slab>>
listVars == <<list>>
sceneVars == <<world, bvh, query>>
colorVars == <<rcCall, rcStack, rcHits>>
renderVars == <<camera, pending, pixels, output, computed, outOfOrder>>
sphereVars == <<probe>>
callVars == <<call>>
buildVars == <<items, tree>>
vars ==
    <<boxA, boxB, slab, list, world, bvh, query, rcCall, rcStack, rcHits,
      camera, pending, pixels, output, computed, outOfOrder, probe, call, items, tree>>

\* The value of a variable no operation has written yet.
Idle == [idle |-> TRUE]

\* No value yet: no call made, nothing returned.
None == [none |-> TRUE]

AabbIdle == boxA = Idle /\ boxB = Idle
SlabIdle == slab = Idle
ListIdle == list = Idle
SceneIdle == world = Idle /\ bvh = Idle /\ query = Idle
ColorIdle == rcCall = Idle /\ rcStack = Idle /\ rcHits = Idle
RenderIdle ==
    /\ camera = Idle
    /\ pending = Idle
    /\ pixels = Idle
    /\ output = Idle
    /\ computed = Idle
    /\ outOfOrder = Idle
SphereIdle == probe = Idle
CallIdle == call = Idle
BuildIdle == items = Idle /\ tree = Idle

\* What the steps of one specification leave alone: the state of the others.
AabbOnly ==
    UNCHANGED <<slabVars, listVars, sceneVars, colorVars, renderVars, sphereVars,
                callVars, buildVars>>
SlabOnly ==
    UNCHANGED <<aabbVars, listVars, sceneVars, colorVars, renderVars, sphereVars,
                callVars, buildVars>>
ListOnly ==
    UNCHANGED <<aabbVars, slabVars, sceneVars, colorVars, renderVars, sphereVars,
                callVars, buildVars>>
SceneOnly ==
    UNCHANGED <<aabbVars, slabVars, listVars, colorVars, renderVars, sphereVars,
                callVars, buildVars>>
ColorOnly ==
    UNCHANGED <<aabbVars, slabVars, listVars, sceneVars, renderVars, sphereVars,
                callVars, buildVars>>
RenderOnly ==
    UNCHANGED <<aabbVars, slabVars, listVars, sceneVars, colorVars, sphereVars,
                callVars, buildVars>>
SphereOnly ==
    UNCHANGED <<aabbVars, slabVars, listVars, sceneVars, colorVars, renderVars,
                callVars, buildVars>>
CallOnly ==
    UNCHANGED <<aabbVars, slabVars, listVars, sceneVars, colorVars, renderVars, sphereVars,
                buildVars>>
BuildOnly ==
    UNCHANGED <<aabbVars, slabVars, listVars, sceneVars, colorVars, renderVars, sphereVars,
                callVars>>

\* No operation of the specifications above has run.
OthersIdle ==
    /\ AabbIdle /\ SlabIdle /\ ListIdle /\ SceneIdle /\ ColorIdle /\ RenderIdle
    /\ SphereIdle

(***************************************************************************)
(* Bounds                                                                  *)
(***************************************************************************)
\* Corner points are drawn with x in 0..MaxCoord.
MaxCoord == 1

\* A HittableList holds at most MaxObjects objects.
MaxObjects == 3

\* Camera::ray_color is called with depth in -1..MaxDepth.
MaxDepth == 3

\* Cameras have an image_width in 1..MaxWidth.
MaxWidth == 3

\* The spheres probed by central rays have a radius of 1/2 or of 1..MaxRadius.
MaxRadius == 2

(***************************************************************************)
(* The AABB constructors: AABB::new, from_extremes, empty, union and the   *)
(* box of HittableList::new.  boxA.padded records whether the value was    *)
(* built by from_extremes or by new from intervals with min <= max, or is  *)
(* a union with such a value.                                              *)
(***************************************************************************)
PointInputs == {V(x, y, 0) : x \in 0..MaxCoord, y \in 0..1}

IntervalInputs == {Interval(I(0), I(0)), Interval(I(0), I(1)), Interval(I(1), I(0))}

Built(box, padded) == [box |-> box, padded |-> padded]

AabbInit ==
    /\ boxA = Built(AabbEmpty, FALSE)
    /\ boxB = Built(AabbEmpty, FALSE)
    /\ SlabIdle /\ ListIdle /\ SceneIdle /\ ColorIdle /\ RenderIdle /\ SphereIdle /\ CallIdle /\ BuildIdle

CallFromExtremes ==
    \E a \in PointInputs, b \in PointInputs :
        /\ boxA' = Built(FromExtremes(a, b), TRUE)
        /\ boxB' = boxA

CallNew ==
    \E x \in IntervalInputs, y \in IntervalInputs, z \in {Interval(I(0), I(0))} :
        /\ boxA' = Built(AabbNew(x, y, z),
                         FLe(x.min, x.max) /\ FLe(y.min, y.max) /\ FLe(z.min, z.max))
        /\ boxB' = boxA

CallEmpty ==
    /\ boxA' = Built(AabbEmpty, FALSE)
    /\ boxB' = boxA

CallListNew ==
    /\ boxA' = Built(HittableListNewBox, FALSE)
    /\ boxB' = boxA

CallUnion ==
    /\ boxA' = Built(Union(boxA.box, boxB.box), boxA.padded \/ boxB.padded)
    /\ boxB' = boxB

AabbNext ==
    \/ CallFromExtremes /\ AabbOnly
    \/ CallNew /\ AabbOnly
    \/ CallEmpty /\ AabbOnly
    \/ CallListNew /\ AabbOnly
    \/ CallUnion /\ AabbOnly

SpecAabb == AabbInit /\ [][AabbNext]_vars

BoxContains(box, p) == Contains(box.x, p.x) /\ Contains(box.y, p.y) /\ Contains(box.z, p.z)

\* size >= 0.0001 on each of the three axes
MinThickness(box) ==
    /\ FLe(Delta, Size(box.x))
    /\ FLe(Delta, Size(box.y))
    /\ FLe(Delta, Size(box.z))

BoxInputs == {FromExtremes(a, b) : a \in PointInputs, b \in PointInputs} \cup {AabbEmpty}

\* Points on a half-unit grid around the boxes, and on the padded faces.
SamplePoints ==
    {Vec3(F(x, 2), F(y, 2), z) :
        x \in -1..(2 * MaxCoord + 1), y \in -1..3, z \in {Zero, F(1, 20000), F(1, 2)}}

\* C4: AABB::union is commutative and associative, and every point that lies
\* in A or in B (Interval::contains on each axis) also lies in union(A, B).
C4_UnionAlgebra ==
    LET a == boxA.box
        b == boxB.box
    IN  /\ Union(a, b) = Union(b, a)
        /\ \A c \in BoxInputs : Union(Union(a, b), c) = Union(a, Union(b, c))
        /\ \A p \in SamplePoints :
               (BoxContains(a, p) \/ BoxContains(b, p)) => BoxContains(Union(a, b), p)

\* C4 witness: two different non-empty boxes, neither the union of the two,
\* with a sample point that lies in only one of them.
C4_Witness ==
    /\ boxA.box # AabbEmpty
    /\ boxB.box # AabbEmpty
    /\ Union(boxA.box, boxB.box) \notin {boxA.box, boxB.box}
    /\ \E p \in SamplePoints : BoxContains(boxA.box, p) /\ ~BoxContains(boxB.box, p)
    /\ \E p \in SamplePoints : BoxContains(boxB.box, p) /\ ~BoxContains(boxA.box, p)

\* C5 as claimed: every AABB obtained through AABB::new, from_extremes, empty,
\* union and HittableList::new has size >= 0.0001 on each axis.
C5_Original == MinThickness(boxA.box)

\* C5 amended: a box built by from_extremes, or by new from intervals with
\* min <= max, or a union with such a box as an operand, has size >= 0.0001
\* on each axis; the boxes of AABB::empty and HittableList::new are the empty
\* box, whose axes have size -inf.
C5_PaddedBoxes ==
    /\ boxA.padded => MinThickness(boxA.box)
    /\ Size(AabbEmpty.x) = NegInf
    /\ Size(HittableListNewBox.z) = NegInf

\* C5 witness: a box from the padding constructors with a degenerate axis,
\* padded to exactly the minimum thickness, after a union with an empty box.
C5_Witness ==
    /\ boxA.padded
    /\ ~boxB.padded
    /\ boxB.box = AabbEmpty
    /\ Size(boxA.box.x) = Delta
    /\ Size(boxA.box.y) = One

(***************************************************************************)
(* AABB::hit, applied to boxes from from_extremes.                         *)
(***************************************************************************)
SlabOrigins == {V(x, y, z) : x \in -1..(MaxCoord + 1), y \in -1..2, z \in {-1, 0}}

SlabDirections == {V(x, y, z) : x \in -1..1, y \in -1..1, z \in 0..1}

\* (0.001, inf) of Camera::ray_color, and two bounded ranges
SlabRanges == {Interval(F(1, 1000), Inf), Interval(Zero, One), Interval(One, I(3))}

SlabInit ==
    /\ slab = None
    /\ AabbIdle /\ ListIdle /\ SceneIdle /\ ColorIdle /\ RenderIdle /\ SphereIdle /\ CallIdle /\ BuildIdle

CallAabbHit ==
    /\ slab = None
    /\ \E a \in PointInputs, b \in PointInputs, o \in SlabOrigins,
          d \in SlabDirections, t \in SlabRanges :
           slab' = [box |-> FromExtremes(a, b), ray |-> Ray(o, d, Zero), t |-> t,
                    res |-> AabbHit(FromExtremes(a, b), Ray(o, d, Zero), t)]

\* the caller has used the answer
SlabReturn ==
    /\ slab # None
    /\ slab' = None

SlabNext ==
    \/ CallAabbHit /\ SlabOnly
    \/ SlabReturn /\ SlabOnly

SpecSlab == SlabInit /\ [][SlabNext]_vars

\* The parameter range of one axis, cut out of the running range.
Narrow(running, interval, direction, origin) ==
    LET t0 == FDiv(FSub(interval.min, origin), direction)
        t1 == FDiv(FSub(interval.max, origin), direction)
    IN  Interval(FMax(running.min, FMin(t0, t1)), FMin(running.max, FMax(t0, t1)))

\* The slab method: the running range narrowed axis after axis, false as
\* soon as the narrowed range has t_max <= t_min.
SlabMethod(box, ray, t) ==
    LET rx == Narrow(t, box.x, ray.direction.x, ray.origin.x)
        ry == Narrow(rx, box.y, ray.direction.y, ray.origin.y)
        rz == Narrow(ry, box.z, ray.direction.z, ray.origin.z)
    IN  /\ ~FLe(rx.max, rx.min)
        /\ ~FLe(ry.max, ry.min)
        /\ ~FLe(rz.max, rz.min)

\* C3 as claimed: AABB::hit(ray, t) is true exactly when one parameter range
\* inside t lies within the slabs of all three axes at once, the running
\* [t_min, t_max] being narrowed axis after axis.
C3_SlabMethod ==
    slab # None => (slab.res <=> SlabMethod(slab.box, slab.ray, slab.t))

(***************************************************************************)
(* The scene objects: spheres and quads with integer coordinates.          *)
(***************************************************************************)
ObjectInputs ==
    {SphereStationary(V(0, 0, 0), I(1), 1),
     SphereStationary(V(3, 0, 0), I(1), 2),
     SphereMoving(V(0, 3, 0), V(0, 5, 0), I(1), 3),
     QuadNew(V(-1, -1, 1), V(2, 0, 0), V(0, 2, 0), 4)}

(***************************************************************************)
(* HittableList under add and clear.                                       *)
(***************************************************************************)
ListInit ==
    /\ list = HittableListNew
    /\ AabbIdle /\ SlabIdle /\ SceneIdle /\ ColorIdle /\ RenderIdle /\ SphereIdle /\ CallIdle /\ BuildIdle

ListAdd ==
    /\ Len(list.objects) < MaxObjects
    /\ \E object \in ObjectInputs : list' = HittableListAdd(list, object)

ListClear == list' = HittableListClear(list)

ListNext ==
    \/ ListAdd /\ ListOnly
    \/ ListClear /\ ListOnly

SpecList == ListInit /\ [][ListNext]_vars

\* C6 as claimed: after any sequence of add and clear calls, bounding_box()
\* is the union of the boxes of the objects the list holds, and the empty
\* box when it holds none.
C6_CachedBox == BoundingBox(list) = RangeBox(list.objects, 0, Len(list.objects))

(***************************************************************************)
(* The scene: a HittableList is filled, a BVHNode is built over it once,   *)
(* and both answer hit calls.  The scene is not changed after the build.   *)
(***************************************************************************)
RayOrigins == {V(0, 0, 3), V(-1, 0, 3), V(-3, 0, 0), V(-3, 1, 0), V(0, 3, 3)}

RayDirections == {V(0, 0, -1), V(2, 0, 0), V(1, 0, -1)}

RayTimes == {Zero, F(1, 2)}

\* The rays for which every square root Sphere::hit takes is exact.
RayInputs ==
    LET Exact(discriminant) == FLt(discriminant, Zero) \/ ExactSqrt(discriminant)
    IN  {ray \in {Ray(o, d, tm) : o \in RayOrigins, d \in RayDirections, tm \in RayTimes} :
            \A object \in ObjectInputs :
                object.kind = "sphere" => Exact(Discriminant(object, ray))}

\* (0.001, inf) of Camera::ray_color, and two bounded ranges
QueryRanges == {Interval(F(1, 1000), Inf), Interval(Zero, I(2)), Interval(I(2), I(5))}

SceneInit ==
    /\ world = HittableListNew
    /\ bvh = None
    /\ query = None
    /\ AabbIdle /\ SlabIdle /\ ListIdle /\ ColorIdle /\ RenderIdle /\ SphereIdle /\ CallIdle /\ BuildIdle

\* world.add(object), while the scene is being built
Add ==
    /\ bvh = None
    /\ query = None
    /\ Len(world.objects) < MaxObjects
    /\ \E object \in ObjectInputs : world' = HittableListAdd(world, object)
    /\ UNCHANGED <<bvh, query>>

\* BVHNode::new(&mut world): the node, and world.objects as sorted by it
Build ==
    /\ bvh = None
    /\ query = None
    /\ LET built == BvhNodeNew(world)
       IN  /\ bvh' = built.node
           /\ world' = [world EXCEPT !.objects = built.objects]
    /\ UNCHANGED query

\* world.hit(ray, interval) and, once built, bvh.hit(ray, interval)
CallHit ==
    /\ query = None
    /\ bvh # Diverges
    /\ \E ray \in RayInputs, interval \in QueryRanges :
           query' = [ray |-> ray, interval |-> interval,
                     list |-> HittableListHit(world, ray, interval),
                     bvh |-> IF bvh = None THEN None ELSE BvhNodeHit(bvh, ray, interval)]
    /\ UNCHANGED <<world, bvh>>

\* the records are dropped
Return ==
    /\ query # None
    /\ query' = None
    /\ UNCHANGED <<world, bvh>>

Next ==
    \/ Add /\ SceneOnly
    \/ Build /\ SceneOnly
    \/ CallHit /\ SceneOnly
    \/ Return /\ SceneOnly

Spec == SceneInit /\ [][Next]_vars

\* C1 as claimed: the BVH built over a list of one or more objects returns a
\* hit exactly when HittableList::hit over the same objects returns one, and
\* then with the same t and the same hit point.
C1_BvhEqualsList ==
    (query # None /\ query.bvh # None) =>
        /\ IsHit(query.bvh) <=> IsHit(query.list)
        /\ IsHit(query.bvh) =>
               /\ query.bvh.t = query.list.t
               /\ query.bvh.point = query.list.point

\* What each child of world reports for the ray of the query over its whole
\* interval.
ChildReports ==
    {Hit(world.objects[k], query.ray, query.interval) : k \in 1..Len(world.objects)}

\* C2: HittableList::hit returns None exactly when no child reports a hit
\* for the ray within the interval, and otherwise a record whose t is the
\* minimum of the t the children report, whatever the order of the children.
C2_ClosestChild ==
    query # None =>
        LET hits == {r \in ChildReports : IsHit(r)}
        IN  /\ ~IsHit(query.list) <=> hits = {}
            /\ IsHit(query.list) =>
                   /\ \E r \in hits : r.t = query.list.t
                   /\ \A r \in hits : FLe(query.list.t, r.t)

\* C2 witness: three children, the last two report hits at different t and
\* the closer of the two comes last in the list.
C2_Witness ==
    /\ query # None
    /\ Len(world.objects) = 3
    /\ IsHit(query.list)
    /\ LET r2 == Hit(world.objects[2], query.ray, query.interval)
           r3 == Hit(world.objects[3], query.ray, query.interval)
       IN  /\ IsHit(r2)
           /\ IsHit(r3)
           /\ FLt(r3.t, r2.t)
           /\ query.list.t = r3.t

(***************************************************************************)
(* Camera::ray_color.  The scene and the materials are any: each           *)
(* world.hit call misses or returns a record of one of the materials, and  *)
(* each material emits a colour and scatters or not (scatter draws at      *)
(* random).  A frame is one activation of ray_color.                       *)
(***************************************************************************)
Color(r, g, b) == Vec3(r, g, b)

Black == Color(Zero, Zero, Zero)

\* Material::emitted of the material kinds: the colour of the texture
\* (DiffuseLight), or the default of the trait, black.  "glow" is a Material
\* implementation that overrides both methods.
Materials == {"lambertian", "metal", "diffuse_light", "glow"}

\* The texture of the light has one colour where u < 1/2 and another elsewhere.
Emitted(material, u, v, point) ==
    CASE material = "diffuse_light" ->
             IF FLt(u, F(1, 2)) THEN Color(I(4), I(4), I(4)) ELSE Color(I(4), One, Zero)
      [] material = "glow" -> Color(One, I(2), I(3))
      [] OTHER -> Black

\* Where world.hit reports the hit of an object of each material: (u, v,
\* point) of the record.  The scene has two lights.
HitPlaces(material) ==
    IF material = "diffuse_light"
    THEN {[u |-> Zero, v |-> Zero, point |-> V(0, 0, 0)],
          [u |-> F(1, 2), v |-> One, point |-> V(1, 0, 0)]}
    ELSE {[u |-> F(1, 4), v |-> F(1, 2), point |-> V(0, 1, 0)]}

NoScatter == [scatters |-> FALSE]

Scatter(attenuation) == [scatters |-> TRUE, attenuation |-> attenuation]

\* What Material::scatter may return for a record of the material.
ScatterOutcomes(material) ==
    CASE material = "lambertian" -> {Scatter(Color(F(1, 2), F(1, 2), F(1, 2)))}
      [] material = "metal" -> {NoScatter, Scatter(Color(One, F(1, 2), Zero))}
      [] material = "glow" -> {Scatter(Color(F(1, 2), One, I(2)))}
      [] OTHER -> {NoScatter}

Backgrounds == {Color(F(7, 10), F(4, 5), One)}

Frame(depth) ==
    [depth |-> depth, stage |-> "call", seen |-> "nothing", material |-> "none",
     place |-> None, color_from_emission |-> None, attenuation |-> None,
     inner |-> None, result |-> None]

\* if depth <= 0
ExhaustedBelowZero(depth) == depth < 0

Exhausted(depth) == depth <= 0

ColorInit ==
    /\ rcCall = None
    /\ rcStack = <<>>
    /\ rcHits = 0
    /\ AabbIdle /\ SlabIdle /\ ListIdle /\ SceneIdle /\ RenderIdle /\ SphereIdle /\ CallIdle /\ BuildIdle

\* self.ray_color(&self.get_ray(i, j), self.max_depth, world) of render
RayColorCall ==
    \E depth \in -1..MaxDepth, background \in Backgrounds :
        /\ rcStack = <<>>
        /\ rcCall' = [background |-> background, depth |-> depth, done |-> FALSE,
                      result |-> None, frame |-> None]
        /\ rcStack' = <<Frame(depth)>>
        /\ rcHits' = 0

Top == rcStack[Len(rcStack)]

SetTop(frame) == [rcStack EXCEPT ![Len(rcStack)] = frame]

\* if depth <= 0 { return black }
RayColorExhausted ==
    /\ rcStack # <<>>
    /\ Top.stage = "call"
    /\ Exhausted(Top.depth)
    /\ rcStack' = SetTop([Top EXCEPT !.stage = "done", !.seen = "exhausted",
                                     !.result = Black])
    /\ UNCHANGED <<rcCall, rcHits>>

\* world.hit returns None
RayColorMiss ==
    /\ rcStack # <<>>
    /\ Top.stage = "call"
    /\ ~Exhausted(Top.depth)
    /\ rcHits' = rcHits + 1
    /\ rcStack' = SetTop([Top EXCEPT !.stage = "done", !.seen = "miss",
                                     !.result = rcCall.background])
    /\ UNCHANGED rcCall

\* world.hit returns a record; the material emits, and does not scatter or
\* scatters, and then ray_color calls itself with depth - 1
RayColorHit ==
    \E material \in Materials :
        \E place \in HitPlaces(material), outcome \in ScatterOutcomes(material) :
            \E color_from_emission \in {Emitted(material, place.u, place.v, place.point)} :
                /\ rcStack # <<>>
                /\ Top.stage = "call"
                /\ ~Exhausted(Top.depth)
                /\ rcHits' = rcHits + 1
                /\ IF outcome.scatters
                   THEN rcStack' = Append(
                            SetTop([Top EXCEPT !.stage = "wait", !.seen = "scattered",
                                               !.material = material, !.place = place,
                                               !.color_from_emission = color_from_emission,
                                               !.attenuation = outcome.attenuation]),
                            Frame(Top.depth - 1))
                   ELSE rcStack' = SetTop(
                            [Top EXCEPT !.stage = "done", !.seen = "absorbed",
                                        !.material = material, !.place = place,
                                        !.color_from_emission = color_from_emission,
                                        !.result = color_from_emission])
                /\ UNCHANGED rcCall

ScatteredColorNoEmission(color_from_emission, attenuation, inner) == VMul(attenuation, inner)

\* color_from_emission + attenuation * (the colour the inner call returned)
ScatteredColor(color_from_emission, attenuation, inner) ==
    VAdd(color_from_emission, VMul(attenuation, inner))

\* an inner call returns into the frame that made it
RayColorReturn ==
    /\ Len(rcStack) > 1
    /\ Top.stage = "done"
    /\ \E caller \in {rcStack[Len(rcStack) - 1]} :
           \E color \in {ScatteredColor(caller.color_from_emission, caller.attenuation,
                                        Top.result)} :
               rcStack' = Append(SubSeq(rcStack, 1, Len(rcStack) - 2),
                                 [caller EXCEPT !.stage = "done", !.inner = Top,
                                                !.result = color])
    /\ UNCHANGED <<rcCall, rcHits>>

\* the outermost call returns
RayColorDone ==
    /\ Len(rcStack) = 1
    /\ Top.stage = "done"
    /\ rcCall' = [rcCall EXCEPT !.done = TRUE, !.result = Top.result, !.frame = Top]
    /\ rcStack' = <<>>
    /\ UNCHANGED rcHits

RayColorStep ==
    \/ RayColorExhausted /\ ColorOnly
    \/ RayColorMiss /\ ColorOnly
    \/ RayColorHit /\ ColorOnly
    \/ RayColorReturn /\ ColorOnly
    \/ RayColorDone /\ ColorOnly

ColorNext ==
    \/ RayColorCall /\ ColorOnly
    \/ RayColorStep

SpecColor == ColorInit /\ [][ColorNext]_vars

\* A call that has begun keeps taking steps until it returns.
SpecColorFair == SpecColor /\ WF_vars(RayColorStep)

\* The frames that have computed their result, in any state.
DoneFrames == {rcStack[k] : k \in {k \in 1..Len(rcStack) : rcStack[k].stage = "done"}}

EmittedAt(frame) == Emitted(frame.material, frame.place.u, frame.place.v, frame.place.point)

Channels == {"x", "y", "z"}

\* C7: a ray_color call with depth > 0 returns the background when the scene
\* reports no hit, the emitted colour of the hit material at the record's
\* (u, v, point) when the material does not scatter, and otherwise, in every
\* channel, emitted + attenuation * (the result of the call with depth - 1).
C7_RayColorCases ==
    \A frame \in DoneFrames :
        frame.depth > 0 =>
            /\ frame.seen \in {"miss", "absorbed", "scattered"}
            /\ frame.seen = "miss" => frame.result = rcCall.background
            /\ frame.seen = "absorbed" => frame.result = EmittedAt(frame)
            /\ frame.seen = "scattered" =>
                   /\ frame.inner.depth = frame.depth - 1
                   /\ frame.inner.stage = "done"
                   /\ \A c \in Channels :
                          frame.result[c] =
                              FAdd(EmittedAt(frame)[c],
                                   FMul(frame.attenuation[c], frame.inner.result[c]))

\* A material that emits and scatters, over an inner call that found light.
C7_Witness ==
    \E frame \in DoneFrames :
        /\ frame.depth > 0
        /\ frame.seen = "scattered"
        /\ frame.material = "glow"
        /\ frame.inner.seen = "absorbed"
        /\ frame.inner.material = "diffuse_light"

Max(a, b) == IF a >= b THEN a ELSE b

Running == rcStack # <<>>

Returned == rcStack = <<>> /\ rcCall # None

\* What a call that has returned must have done: at most max(depth, 0)
\* world.hit calls, and for depth <= 0 none, with black as the result.
WithinDepth ==
    /\ rcHits <= Max(rcCall.depth, 0)
    /\ rcCall.depth <= 0 => rcCall.result = Black /\ rcHits = 0

\* C8: every ray_color call returns, whatever the scene and the materials do,
\* having made at most max(depth, 0) world.hit calls, and with depth <= 0 it
\* returns black and has made none.
C8_Terminates == Running ~> (Returned /\ WithinDepth)

\* A path that scatters at every hit until the depth is used up.
C8_Witness == Returned /\ rcCall.depth = MaxDepth /\ rcHits = MaxDepth

(***************************************************************************)
(* Camera::render.  The pixel indices are handed to the workers of the     *)
(* pool, which take them in any order; collect puts each result at the     *)
(* index of its item, and the write happens when all are there.            *)
(***************************************************************************)
\* f64 as i32, of a value in the range of i32: towards zero.
AsI32(a) == Sgn(a.n) * (Abs(a.n) \div a.d)

AspectRatios == {One, F(3, 2), I(3)}

\* image_height of Camera::new
ImageHeight(image_width, aspect_ratio) ==
    Max(AsI32(FDiv(I(image_width), aspect_ratio)), 1)

CartesianProductColumnMajor(rows, columns) ==
    [k \in 1..(rows * columns) |-> <<(k - 1) % rows, (k - 1) \div rows>>]

\* (0..rows).cartesian_product(0..columns).collect(): the pairs (j, i), the
\* second component running fastest.
CartesianProduct(rows, columns) ==
    [k \in 1..(rows * columns) |-> <<(k - 1) \div columns, (k - 1) % columns>>]

\* The mean of the samples of ray_color through pixel (i, j): the samples are
\* random, and the model keeps the colour as a term of the pixel.
PixelColor(i, j) == [mean_of_samples_at |-> <<i, j>>]

\* The text of a pixel: one "R G B" triple for the colour.
FormatColor(pixel_color) == [triple_of |-> pixel_color]

\* pixels.join("\n") inside "P3\n{} {}\n255\n{}": the lines of the output.
Lines(image_width, image_height, texts) ==
    <<"P3", <<image_width, image_height>>, 255>> \o texts

RenderInit ==
    /\ camera = None
    /\ pending = {}
    /\ pixels = <<>>
    /\ output = None
    /\ computed = <<>>
    /\ outOfOrder = FALSE
    /\ AabbIdle /\ SlabIdle /\ ListIdle /\ SceneIdle /\ ColorIdle /\ SphereIdle /\ CallIdle /\ BuildIdle

\* Camera::new, and the start of render: the items are collected and none
\* is computed yet
CameraNew ==
    \E image_width \in 1..MaxWidth, aspect_ratio \in AspectRatios :
        /\ camera = None \/ output # None
        /\ camera' = [image_width |-> image_width,
                      image_height |-> ImageHeight(image_width, aspect_ratio),
                      items |-> CartesianProduct(
                                    ImageHeight(image_width, aspect_ratio), image_width)]
        /\ pending' = 1..(ImageHeight(image_width, aspect_ratio) * image_width)
        /\ pixels' = [k \in 1..(ImageHeight(image_width, aspect_ratio) * image_width)
                          |-> None]
        /\ computed' = [k \in 1..(ImageHeight(image_width, aspect_ratio) * image_width)
                            |-> 0]
        /\ output' = None
        /\ outOfOrder' = FALSE

\* a worker maps one item (j, i) that no worker has taken
RenderPixel ==
    \E k \in pending :
        /\ pending' = pending \ {k}
        /\ pixels' = [pixels EXCEPT
                          ![k] = FormatColor(PixelColor(camera.items[k][2], camera.items[k][1]))]
        /\ computed' = [computed EXCEPT ![k] = @ + 1]
        /\ outOfOrder' = (outOfOrder \/ \E lower \in pending : lower < k)
        /\ UNCHANGED <<camera, output>>

\* all items are mapped: join and write!
RenderWrite ==
    /\ camera # None
    /\ output = None
    /\ pending = {}
    /\ output' = Lines(camera.image_width, camera.image_height, pixels)
    /\ UNCHANGED <<camera, pending, pixels, computed, outOfOrder>>

RenderNext ==
    \/ CameraNew /\ RenderOnly
    \/ RenderPixel /\ RenderOnly
    \/ RenderWrite /\ RenderOnly

SpecRender == RenderInit /\ [][RenderNext]_vars

\* C9: the output of render is the lines 'P3', '<width> <height>', '255' and
\* then exactly image_width * image_height pixel texts, the text of pixel
\* (i, j) at position j * image_width + i, and each pixel has been computed
\* exactly once, in whatever order the workers took the pixels.
C9_RasterOrder ==
    /\ camera # None => \A k \in DOMAIN computed : computed[k] <= 1
    /\ output # None =>
           /\ Len(output) = 3 + camera.image_width * camera.image_height
           /\ output[1] = "P3"
           /\ output[2] = <<camera.image_width, camera.image_height>>
           /\ output[3] = 255
           /\ \A j \in 0..(camera.image_height - 1), i \in 0..(camera.image_width - 1) :
                  /\ output[3 + j * camera.image_width + i + 1] =
                         FormatColor(PixelColor(i, j))
                  /\ computed[j * camera.image_width + i + 1] = 1

\* An image of several rows and columns, written after the workers finished
\* its pixels out of order.
C9_Witness ==
    /\ output # None
    /\ camera.image_width > 1
    /\ camera.image_height > 1
    /\ outOfOrder

(***************************************************************************)
(* Sphere::hit on central rays: rays of unit direction that start outside  *)
(* the sphere and point at its centre, over the interval of ray_color.     *)
(***************************************************************************)
ProbeSpheres ==
    {SphereStationary(c, r, 1) :
         c \in {V(0, 0, -1), V(1, 2, 3)}, r \in {F(1, 2)} \cup {I(k) : k \in 1..MaxRadius}}
    \cup {SphereMoving(V(0, 0, 0), V(0, 2, 0), r, 2) :
              r \in {F(1, 2)} \cup {I(k) : k \in 1..MaxRadius}}

\* Directions of length 1.
UnitDirections ==
    {V(1, 0, 0), V(-1, 0, 0), V(0, 0, -1),
     Vec3(F(3, 5), F(4, 5), Zero), Vec3(Zero, F(-3, 5), F(4, 5))}

\* How far outside the surface the ray starts.
Gaps == {F(1, 2000), F(1, 1000), F(1, 500), One, I(3)}

\* The interval of Camera::ray_color.
CameraInterval == Interval(F(1, 1000), Inf)

\* The ray of direction d and time that starts gap outside the sphere and
\* points at its centre.
CentralRay(sphere, d, gap, time) ==
    Ray(VSub(At(sphere.center, time), VScale(FAdd(sphere.radius, gap), d)), d, time)

SphereInit ==
    /\ probe = None
    /\ AabbIdle /\ SlabIdle /\ ListIdle /\ SceneIdle /\ ColorIdle /\ RenderIdle /\ CallIdle /\ BuildIdle

CallSphereHit ==
    /\ probe = None
    /\ \E sphere \in ProbeSpheres, d \in UnitDirections, gap \in Gaps,
          time \in {Zero, I(2)} :
           probe' = [sphere |-> sphere,
                     ray |-> CentralRay(sphere, d, gap, time),
                     gap |-> gap,
                     res |-> SphereHit(sphere, CentralRay(sphere, d, gap, time),
                                       CameraInterval)]

\* the caller is done with the record
SphereReturn ==
    /\ probe # None
    /\ probe' = None

SphereNext ==
    \/ CallSphereHit /\ SphereOnly
    \/ SphereReturn /\ SphereOnly

SpecSphere == SphereInit /\ [][SphereNext]_vars

\* The centre of the probed sphere at the time of the ray.
ProbeCenter == At(probe.sphere.center, probe.ray.time)

\* The ray of the probe is central: of unit direction, from outside the sphere,
\* towards the centre.
IsCentral ==
    /\ probe.sphere.radius.n > 0
    /\ Length(probe.ray.direction) = One
    /\ FLt(probe.sphere.radius, Length(VSub(ProbeCenter, probe.ray.origin)))
    /\ VScale(Length(VSub(ProbeCenter, probe.ray.origin)), probe.ray.direction)
           = VSub(ProbeCenter, probe.ray.origin)

\* The hit is at the distance from the origin to the surface, with the unit
\* vector from the centre to the hit point as its normal.
HitsNearSurface ==
    /\ IsHit(probe.res)
    /\ probe.res.t = FSub(Length(VSub(ProbeCenter, probe.ray.origin)), probe.sphere.radius)
    /\ probe.res.normal = UnitVector(VSub(probe.res.point, ProbeCenter))

CallInit ==
    /\ call = None
    /\ OthersIdle /\ BuildIdle

\* the value returned is dropped
CallReturn ==
    /\ call # None
    /\ call' = None

(***************************************************************************)
(* The constructors Sphere::stationary, Sphere::moving and Metal::new.     *)
(***************************************************************************)
\* Metal::new
MetalNew(albedo, fuzz) == [kind |-> "metal", albedo |-> albedo, fuzz |-> FMin(fuzz, One)]

\* The radius and fuzz arguments: halves and integers of either sign, the
\* infinities and NaN.
ScalarInputs ==
    {F(k, 2) : k \in {-1, 1}} \cup {I(k) : k \in (0 - MaxRadius)..MaxRadius}
        \cup {Inf, NegInf, NaN}

CenterInputs == {V(0, 2, 1), V(0, 0, -1), V(-1, 0, 0)}

CallSphereStationary ==
    /\ call = None
    /\ \E center \in CenterInputs, radius \in ScalarInputs :
           call' = [fn |-> "Sphere::stationary", center |-> center, radius |-> radius,
                    res |-> SphereStationary(center, radius, 1)]

CallSphereMoving ==
    /\ call = None
    /\ \E start \in CenterInputs, end \in CenterInputs, radius \in ScalarInputs :
           call' = [fn |-> "Sphere::moving", center |-> start, end |-> end,
                    radius |-> radius,
                    res |-> SphereMoving(start, end, radius, 1)]

CallMetalNew ==
    /\ call = None
    /\ \E albedo \in {V(1, 1, 1), Vec3(F(4, 5), F(3, 5), F(1, 5))}, fuzz \in ScalarInputs :
           call' = [fn |-> "Metal::new", albedo |-> albedo, fuzz |-> fuzz,
                    res |-> MetalNew(albedo, fuzz)]

MakeNext ==
    \/ CallSphereStationary /\ CallOnly
    \/ CallSphereMoving /\ CallOnly
    \/ CallMetalNew /\ CallOnly
    \/ CallReturn /\ CallOnly

SpecMake == CallInit /\ [][MakeNext]_vars

MadeSphere == call # None /\ call.fn \in {"Sphere::stationary", "Sphere::moving"}

\* C11: Sphere::stationary and Sphere::moving always return a sphere; a
\* negative radius is stored as 0, a radius >= 0 is stored as given, and the
\* centre (at time 0) is the centre given.
C11_RadiusClamped ==
    MadeSphere =>
        /\ call.res.kind = "sphere"
        /\ FLt(call.radius, Zero) => call.res.radius = Zero
        /\ FLe(Zero, call.radius) => call.res.radius = call.radius
        /\ call.res.center.origin = call.center
        /\ At(call.res.center, Zero) = call.center

\* As in test_create_with_negative_radius: centre (0, 2, 1), a negative radius
\* given, radius 0 stored.
C11_Witness ==
    /\ MadeSphere
    /\ call.fn = "Sphere::stationary"
    /\ call.center = V(0, 2, 1)
    /\ call.radius = I(0 - MaxRadius)
    /\ call.res.radius = Zero

\* C14 as claimed: the fuzz stored by Metal::new lies in [0, 1], whatever the
\* fuzz argument.
C14_FuzzInUnit ==
    call # None /\ call.fn = "Metal::new" =>
        FLe(Zero, call.res.fuzz) /\ FLe(call.res.fuzz, One)

(***************************************************************************)
(* write_color.  The square root of a channel that is not the square of a  *)
(* rational is known to four decimals: the root lies strictly between      *)
(* SqrtDown and SqrtDown + 1/10000, and write_color is modelled by          *)
(* every text it writes for a root in that range.                          *)
(***************************************************************************)
\* Interval::clamp
Clamp(i, x) == IF FLt(x, i.min) THEN i.min ELSE IF FLt(i.max, x) THEN i.max ELSE x

\* sqrt(a) rounded down to a multiple of 1/10000, for a finite a > 0
SqrtDown(a) == F(ISqrt((a.n * 100000000) \div a.d), 10000)

\* The range of linear_component.sqrt(): its two ends, equal when exact.
SqrtRange(a) ==
    IF ExactSqrt(a) \/ ~IsFinite(a) THEN <<FSqrt(a), FSqrt(a)>>
    ELSE <<SqrtDown(a), FAdd(SqrtDown(a), F(1, 10000))>>

\* linear_to_gamma, as the range of its result
LinearToGamma(linear_component) ==
    IF FLt(Zero, linear_component) THEN SqrtRange(linear_component) ELSE <<Zero, Zero>>

\* A slip in write_color: the cast rounds to the nearest integer.
AsI16Nearest(x) ==
    IF IsNaN(x) THEN 0
    ELSE (2 * (255 * x.n + (999 * x.n) \div 1000) + x.d) \div (2 * x.d)

\* (255.999 * x) as i16 for 0 <= x <= 0.999: 255.999 * x = 255999 * x / 1000,
\* rounded towards zero; a NaN is cast to 0.
AsI16(x) ==
    IF IsNaN(x) THEN 0
    ELSE (255 * x.n + (999 * x.n) \div 1000) \div x.d

\* The bytes a channel can be written as.
Bytes(component) ==
    LET intensity == Interval(Zero, F(999, 1000))
        Between(low, high) == AsI16(low)..AsI16(high)
        Clamped(range) == Between(Clamp(intensity, range[1]), Clamp(intensity, range[2]))
    IN  IF IsNaN(component) THEN {AsI16(NaN)} ELSE Clamped(LinearToGamma(component))

\* The characters of {n} for 0 <= n < 1000
Decimal(n) ==
    LET digit == [k \in 0..9 |->
                     <<"0", "1", "2", "3", "4", "5", "6", "7", "8", "9">>[k + 1]]
    IN  IF n < 10 THEN <<digit[n]>>
        ELSE IF n < 100 THEN <<digit[n \div 10], digit[n % 10]>>
        ELSE <<digit[n \div 100], digit[(n \div 10) % 10], digit[n % 10]>>

\* write!(out, "{rbyte} {gbyte} {bbyte}\n")
Written(rbyte, gbyte, bbyte) ==
    Decimal(rbyte) \o <<" ">> \o Decimal(gbyte) \o <<" ">> \o Decimal(bbyte) \o <<"\n">>

\* write_color: the texts it can write for the pixel
WriteColor(pixel) ==
    {Written(rbyte, gbyte, bbyte) :
        rbyte \in Bytes(pixel.x), gbyte \in Bytes(pixel.y), bbyte \in Bytes(pixel.z)}

ChannelInputs ==
    {F(k, 10) : k \in {-5, 0, 1, 3, 5, 7, 9, 10, 20}} \cup {F(1, 4), NaN, Inf}

CallWriteColor ==
    /\ call = None
    /\ \E r \in ChannelInputs, g \in ChannelInputs, b \in ChannelInputs :
           \E text \in WriteColor(Vec3(r, g, b)) :
               call' = [fn |-> "write_color", pixel |-> Vec3(r, g, b), res |-> text]

WriteNext ==
    \/ CallWriteColor /\ CallOnly
    \/ CallReturn /\ CallOnly

SpecWrite == CallInit /\ [][WriteNext]_vars

\* C12 as claimed: for the colour (0.5, 0.7, 0.9) write_color writes
\* "127 179 230\n".
C12_TestColor ==
    call # None /\ call.fn = "write_color"
            /\ call.pixel = Vec3(F(1, 2), F(7, 10), F(9, 10)) =>
        call.res = <<"1", "2", "7", " ", "1", "7", "9", " ", "2", "3", "0", "\n">>

(***************************************************************************)
(* Textures and Lambertian::scatter.                                       *)
(***************************************************************************)
SolidColor(albedo) == [kind |-> "solid", albedo |-> albedo]

\* CheckerTexture::new
CheckerTexture(scale, even, odd) ==
    [kind |-> "checker", inv_scale |-> FDiv(One, scale), even |-> even, odd |-> odd]

\* f64::floor(x) as i32, for a finite x
Floor(x) == x.n \div x.d

RECURSIVE TextureValue(_, _, _, _)
\* Texture::value of SolidColor and of CheckerTexture
TextureValue(texture, u, v, point) ==
    LET Parity(xint, yint, zint) ==
            IF (xint + yint + zint) % 2 = 0
            THEN TextureValue(texture.even, u, v, point)
            ELSE TextureValue(texture.odd, u, v, point)
    IN  IF texture.kind = "solid" THEN texture.albedo
        ELSE Parity(Floor(FMul(texture.inv_scale, point.x)),
                    Floor(FMul(texture.inv_scale, point.y)),
                    Floor(FMul(texture.inv_scale, point.z)))

\* Lambertian::new
LambertianNew(texture) == [kind |-> "lambertian", texture |-> texture]

\* Lambertian::from_albedo
LambertianFromAlbedo(albedo) == LambertianNew(SolidColor(albedo))

\* Vec3::near_zero
NearZero(a) ==
    /\ FLt(FAbs(a.x), F(1, 100000000))
    /\ FLt(FAbs(a.y), F(1, 100000000))
    /\ FLt(FAbs(a.z), F(1, 100000000))

\* Vec3::random: each component drawn from [0, 1); the draws whose length
\* has an exact square root.
RandomCandidates ==
    LET draws == {Zero, F(3, 10), F(2, 5), F(1, 2), F(4, 5), F(9, 10)}
    IN  {c \in {Vec3(x, y, z) : x \in draws, y \in draws, z \in draws} :
            ExactSqrt(LengthSquared(c))}

\* Vec3::random_unit_vector: the candidates the loop accepts, scaled to
\* length 1.  1e-160 < length: the accepted candidates are not zero.
RandomUnitVector ==
    {VDiv(candidate, FSqrt(LengthSquared(candidate))) :
        candidate \in {c \in RandomCandidates :
                          /\ FLt(Zero, LengthSquared(c))
                          /\ FLe(LengthSquared(c), One)}}

Scattered(attenuation, ray) ==
    [scatters |-> TRUE, attenuation |-> attenuation, ray |-> ray]

\* A slip in Lambertian::scatter: the scattered ray starts where the
\* incoming ray started.
LambertianScatterFromOrigin(material, ray_in, record, random) ==
    LET Direction(scatter_direction) ==
            IF NearZero(scatter_direction) THEN record.normal ELSE scatter_direction
    IN  Scattered(TextureValue(material.texture, record.u, record.v, record.point),
                  Ray(ray_in.origin, Direction(VAdd(record.normal, random)), ray_in.time))

\* Lambertian::scatter, with the random unit vector it draws
LambertianScatter(material, ray_in, record, random) ==
    LET Direction(scatter_direction) ==
            IF NearZero(scatter_direction) THEN record.normal ELSE scatter_direction
    IN  Scattered(TextureValue(material.texture, record.u, record.v, record.point),
                  Ray(record.point, Direction(VAdd(record.normal, random)), ray_in.time))

TextureInputs ==
    LET white == SolidColor(Color(One, One, One))
        green == SolidColor(Color(F(1, 5), F(3, 10), F(1, 10)))
    IN  {white, green, CheckerTexture(F(1, 2), green, white),
         CheckerTexture(I(2), CheckerTexture(One, white, green), green)}

\* Records of hits: on spheres around the origin and on a quad, from outside
\* and from inside.
RecordInputs ==
    {HitRecord(point, normal, 1, t, uv, uv, front_face) :
        point \in {V(0, 0, 0), V(1, 0, 0), V(-1, 2, 0), Vec3(F(1, 2), F(-3, 2), I(3))},
        normal \in {V(-1, 0, 0), V(0, 1, 0), Vec3(F(-3, 5), Zero, F(-4, 5))},
        t \in {One}, uv \in {Zero, F(1, 4), One}, front_face \in BOOLEAN}

RaysIn == {Ray(V(3, 0, 0), V(-1, 0, 0), Zero), Ray(V(0, -2, 4), V(0, 1, -2), F(1, 2))}

CallLambertianScatter ==
    /\ call = None
    /\ \E texture \in TextureInputs, ray_in \in RaysIn, record \in RecordInputs,
          random \in RandomUnitVector :
           call' = [fn |-> "Lambertian::scatter", material |-> LambertianNew(texture),
                    ray_in |-> ray_in, record |-> record, random |-> random,
                    res |-> LambertianScatter(LambertianNew(texture), ray_in, record,
                                              random)]

ScatterNext ==
    \/ CallLambertianScatter /\ CallOnly
    \/ CallReturn /\ CallOnly

SpecScatter == CallInit /\ [][ScatterNext]_vars

\* The colour of the texture at the place of the record: the albedo of a
\* solid colour, the colour of the cell of the point for a checker.
SampledColor(texture, record) ==
    IF texture.kind = "solid" THEN texture.albedo
    ELSE TextureValue(texture, record.u, record.v, record.point)

BvhNodeQueries(node, ray, interval) ==
    LET Right(closest_so_far) ==
            <<[child |-> "left", interval |-> interval],
              [child |-> "right", interval |-> Interval(interval.min, closest_so_far)]>>
        Left(hit_left) == Right(IF IsHit(hit_left) THEN hit_left.t ELSE interval.max)
    IN  IF ~AabbHit(node.bbox, ray, interval) THEN <<>>
        ELSE Left(Hit(node.left, ray, interval))

\* Spheres and quads that the ray from (0, 0, 3) along -z meets at t = 2, in
\* pairs of the same shape and different material, and a sphere behind them.
ChildInputs ==
    {SphereStationary(V(0, 0, 0), One, 1),
     SphereStationary(V(0, 0, 0), One, 2),
     SphereStationary(V(0, 1, 1), One, 3),
     SphereStationary(V(0, 0, -3), One, 4),
     QuadNew(V(-1, -1, 1), V(2, 0, 0), V(0, 2, 0), 5),
     QuadNew(V(-1, -1, 1), V(2, 0, 0), V(0, 2, 0), 6)}

ChildRays ==
    {Ray(V(0, 0, 3), V(0, 0, -1), Zero),
     Ray(V(0, 0, 3), V(0, 0, -2), Zero),
     Ray(V(0, 0, -6), V(0, 0, 1), Zero),
     Ray(V(5, 5, 3), V(0, 0, -1), Zero)}

ChildRanges == {Interval(F(1, 1000), Inf), Interval(Zero, I(2)), Interval(Zero, I(7))}

\* first and second are added to a new list, and the node is built over it.
CallPairHit ==
    /\ call = None
    /\ \E first \in ChildInputs, second \in ChildInputs, ray \in ChildRays,
          interval \in ChildRanges :
           LET pair == HittableListAdd(HittableListAdd(HittableListNew, first), second)
               node == BvhNodeNew(pair).node
           IN  call' = [fn |-> "hit", first |-> first, second |-> second,
                        node |-> node, ray |-> ray, interval |-> interval,
                        list |-> HittableListHit(pair, ray, interval),
                        bvh |-> BvhNodeHit(node, ray, interval),
                        queries |-> BvhNodeQueries(node, ray, interval)]

PairNext ==
    \/ CallPairHit /\ CallOnly
    \/ CallReturn /\ CallOnly

SpecPair == CallInit /\ [][PairNext]_vars

PairCall == call # None /\ call.fn = "hit"

\* What each child returns when asked alone over the whole interval.
FirstAlone == Hit(call.first, call.ray, call.interval)
SecondAlone == Hit(call.second, call.ray, call.interval)

\* The ray meets both children at exactly the same t.
Tie == IsHit(FirstAlone) /\ IsHit(SecondAlone) /\ FirstAlone.t = SecondAlone.t

\* C15 as claimed: when the ray meets two children of a HittableList at the
\* same t, HittableList::hit returns the record of the child that comes first.
C15_FirstWins == PairCall /\ Tie => call.list = FirstAlone

\* What the right child returns over the interval narrowed by the left hit.
SecondNarrowed ==
    Hit(call.second, call.ray,
        Interval(call.interval.min,
                 IF IsHit(FirstAlone) THEN FirstAlone.t ELSE call.interval.max))

\* The calls and the result of BVHNode::hit as the claim describes them.
BvhHitOrder ==
    IF ~AabbHit(call.node.bbox, call.ray, call.interval)
    THEN call.queries = <<>> /\ call.bvh = NoHit
    ELSE /\ Len(call.queries) = 2
         /\ call.queries[1] = [child |-> "left", interval |-> call.interval]
         /\ call.queries[2].child = "right"
         /\ call.queries[2].interval.min = call.interval.min
         /\ call.queries[2].interval.max =
                (IF IsHit(FirstAlone) THEN FirstAlone.t ELSE call.interval.max)
         /\ call.bvh = (IF IsHit(SecondNarrowed) THEN SecondNarrowed ELSE FirstAlone)

\* C17 as stated: the calls and the result are as described, and on an exact
\* tie in t the record of the right child is returned.
C17_Original ==
    PairCall =>
        /\ call.node.left = call.first /\ call.node.right = call.second
        /\ BvhHitOrder
        /\ Tie /\ IsHit(call.bvh) => call.bvh = SecondAlone

\* C17: BVHNode::hit returns None without a call to either child when
\* AABB::hit rejects the ray; otherwise it asks the left child over the whole
\* interval, then the right child over [interval.min, t of the left hit] (the
\* whole interval when the left missed), and returns the hit of the right
\* child when there is one and that of the left otherwise.  On an exact tie
\* a right Quad, which accepts t equal to the upper end, is returned, and a
\* right Sphere, which does not, leaves the left child's record.
C17_BvhHit ==
    PairCall =>
        /\ call.node.left = call.first /\ call.node.right = call.second
        /\ BvhHitOrder
        /\ Tie /\ IsHit(call.bvh) /\ call.second.kind = "quad" => call.bvh = SecondAlone
        /\ Tie /\ IsHit(call.bvh) /\ call.second.kind = "sphere" => call.bvh = FirstAlone

\* Two spheres of the same shape and different material met at t = 2: both
\* children are asked, and the record of the left one is returned.
C17_Witness ==
    /\ PairCall
    /\ Tie
    /\ call.first.kind = "sphere"
    /\ call.second.kind = "sphere"
    /\ call.first.material # call.second.material
    /\ Len(call.queries) = 2
    /\ call.queries[2].interval.max = I(2)
    /\ IsHit(call.bvh)
    /\ call.bvh.material = call.first.material

(***************************************************************************)
(* Sphere::hit and Quad::hit on one object, for rays from outside, from    *)
(* inside, tangent, missing and of zero direction.                         *)
(***************************************************************************)
HitSpheres ==
    {SphereStationary(V(0, 0, 0), One, 1),
     SphereStationary(V(0, 0, -1), F(1, 2), 1),
     SphereStationary(V(0, 0, 0), I(-1), 1),
     SphereMoving(V(0, 0, 0), V(0, 2, 0), One, 2)}

HitQuads ==
    {QuadNew(V(-1, -1, 1), V(2, 0, 0), V(0, 2, 0), 3),
     QuadNew(V(0, 0, 0), V(2, 0, 0), V(1, 2, 0), 3),
     QuadNew(V(0, 0, 0), V(0, 1, 0), V(4, 0, 3), 4),
     QuadNew(V(0, 0, 0), V(1, 0, 0), V(2, 0, 0), 4)}

HitRays ==
    {Ray(origin, direction, time) :
        origin \in {V(0, 0, 3), V(0, 0, 0), V(0, 1, 0), V(0, 1, 3), V(1, 1, 3), V(3, 2, 3),
                    Vec3(F(1, 2), F(1, 2), I(3))},
        direction \in {V(0, 0, -1), V(0, 0, -2), V(0, 0, 1), V(1, 0, 0), V(0, 0, 0)},
        time \in {Zero, F(1, 2), One}}

HitRanges ==
    {Interval(F(1, 1000), Inf), Interval(Zero, I(2)), Interval(I(2), I(4)),
     Interval(Zero, I(3)), IntervalUniverse, IntervalEmpty}

\* The rays of which Sphere::hit takes an exact square root.
ExactRays(sphere) ==
    {ray \in HitRays :
        FLt(Discriminant(sphere, ray), Zero) \/ ExactSqrt(Discriminant(sphere, ray))}

CallObjectSphereHit ==
    /\ call = None
    /\ \E sphere \in HitSpheres, interval \in HitRanges :
           \E ray \in ExactRays(sphere) :
               call' = [fn |-> "Sphere::hit", object |-> sphere, ray |-> ray,
                        interval |-> interval, res |-> SphereHit(sphere, ray, interval)]

CallObjectQuadHit ==
    /\ call = None
    /\ \E quad \in HitQuads, ray \in HitRays, interval \in HitRanges :
           call' = [fn |-> "Quad::hit", object |-> quad, ray |-> ray,
                    interval |-> interval, res |-> QuadHit(quad, ray, interval)]

ObjectNext ==
    \/ CallObjectSphereHit /\ CallOnly
    \/ CallObjectQuadHit /\ CallOnly
    \/ CallReturn /\ CallOnly

SpecObject == CallInit /\ [][ObjectNext]_vars

SphereCall == call # None /\ call.fn = "Sphere::hit"

\* The centre of the sphere of the call at the time of the ray.
CenterNow == At(call.object.center, call.ray.time)

\* a, h and c of the quadratic a t^2 - 2 h t + c = 0 of the ray and the sphere
QuadraticA == LengthSquared(call.ray.direction)
QuadraticH == Dot(call.ray.direction, VSub(CenterNow, call.ray.origin))
QuadraticC ==
    FSub(LengthSquared(VSub(CenterNow, call.ray.origin)),
         FMul(call.object.radius, call.object.radius))
QuadraticDiscriminant == FSub(FMul(QuadraticH, QuadraticH), FMul(QuadraticA, QuadraticC))
SmallerRoot == FDiv(FSub(QuadraticH, FSqrt(QuadraticDiscriminant)), QuadraticA)
LargerRoot == FDiv(FAdd(QuadraticH, FSqrt(QuadraticDiscriminant)), QuadraticA)

StrictlyInside(x) == FLt(call.interval.min, x) /\ FLt(x, call.interval.max)

\* C16: Sphere::hit returns None when the discriminant is negative or neither
\* root lies strictly inside the interval; otherwise t is the smaller root
\* when that lies strictly inside the interval and the larger root when not,
\* the roots being those against the centre at the time of the ray, so that
\* the point of the ray at t is at the distance of the radius from it.
C16_RootChoice ==
    SphereCall =>
        /\ ~IsHit(call.res) <=>
               \/ FLt(QuadraticDiscriminant, Zero)
               \/ ~StrictlyInside(SmallerRoot) /\ ~StrictlyInside(LargerRoot)
        /\ IsHit(call.res) =>
               /\ call.res.t = (IF StrictlyInside(SmallerRoot) THEN SmallerRoot
                                ELSE LargerRoot)
               /\ FLe(SmallerRoot, LargerRoot)
               /\ LengthSquared(VSub(At(call.ray, call.res.t), CenterNow))
                      = FMul(call.object.radius, call.object.radius)
               /\ call.res.point = At(call.ray, call.res.t)

\* A moving sphere away from where it started, the ray starting inside it:
\* the smaller root is negative and the larger one is returned.
C16_Witness ==
    /\ SphereCall
    /\ call.object.center.direction # V(0, 0, 0)
    /\ call.ray.time = F(1, 2)
    /\ call.interval = Interval(F(1, 1000), Inf)
    /\ FLt(SmallerRoot, Zero)
    /\ IsHit(call.res)
    /\ call.res.t = LargerRoot
    /\ CenterNow = V(0, 1, 0)

QuadCall == call # None /\ call.fn = "Quad::hit"

\* The unit normal N of the plane of the quad, and N . D.
PlaneNormal == UnitVector(Cross(call.object.u, call.object.v))
PlaneDenominator == Dot(PlaneNormal, call.ray.direction)

\* t of the point where the ray meets the plane: N . (O + t D) = N . Q
PlaneT ==
    FDiv(FSub(Dot(PlaneNormal, call.object.q), Dot(PlaneNormal, call.ray.origin)),
         PlaneDenominator)

\* alpha and beta with P - Q = alpha u + beta v for P = ray.at(t), solved
\* from the products of P - Q with u and with v.
PlanarCoordinates ==
    LET Solve(pu, pv, uu, vv, uv) ==
            [alpha |-> FDiv(FSub(FMul(pu, vv), FMul(pv, uv)),
                            FSub(FMul(uu, vv), FMul(uv, uv))),
             beta |-> FDiv(FSub(FMul(pv, uu), FMul(pu, uv)),
                           FSub(FMul(uu, vv), FMul(uv, uv)))]
        Of(p, u, v) == Solve(Dot(p, u), Dot(p, v), Dot(u, u), Dot(v, v), Dot(u, v))
    IN  Of(VSub(At(call.ray, PlaneT), call.object.q), call.object.u, call.object.v)

InUnit(x) == FLe(Zero, x) /\ FLe(x, One)

\* C20: Quad::hit returns a hit exactly when |N . D| >= 1e-8, t of the plane
\* intersection lies in the interval (its ends included) and alpha and beta
\* both lie in [0, 1]; the record has u = alpha, v = beta, that t and the
\* point ray.at(t).
C20_QuadHit ==
    QuadCall =>
        /\ IsHit(call.res) <=>
               /\ FLe(F(1, 100000000), FAbs(PlaneDenominator))
               /\ FLe(call.interval.min, PlaneT) /\ FLe(PlaneT, call.interval.max)
               /\ InUnit(PlanarCoordinates.alpha)
               /\ InUnit(PlanarCoordinates.beta)
        /\ IsHit(call.res) =>
               /\ call.res.u = PlanarCoordinates.alpha
               /\ call.res.v = PlanarCoordinates.beta
               /\ call.res.t = PlaneT
               /\ call.res.point = At(call.ray, PlaneT)

\* A quad whose edges are not at right angles, met in a corner (alpha = 0,
\* beta = 0) at a t that is the upper end of the interval.
C20_Witness ==
    /\ QuadCall
    /\ Dot(call.object.u, call.object.v) # Zero
    /\ IsHit(call.res)
    /\ call.res.t = call.interval.max
    /\ call.res.u = Zero
    /\ call.res.v = Zero

(***************************************************************************)
(* BVHNode::new over a list of objects.  Each object added has a material  *)
(* of its own, by which the entries of the list are told apart; tree holds *)
(* the node built and the list as it was given to the build.               *)
(***************************************************************************)
\* The lists built over hold at most MaxItems objects.
MaxItems == 5

\* Where the spheres of the list are: apart along x, along y, and at one place.
ItemCenters == {V(0, 0, 0), V(3, 0, 0), V(0, 5, 0)}

BuildInit ==
    /\ items = HittableListNew
    /\ tree = None
    /\ OthersIdle /\ CallIdle

\* items.add(sphere), before the build
ItemAdd ==
    /\ tree = None
    /\ Len(items.objects) < MaxItems
    /\ \E center \in ItemCenters :
           items' = HittableListAdd(items,
                        SphereStationary(center, One, Len(items.objects) + 1))
    /\ UNCHANGED tree

\* BVHNode::new(&mut items): the node, and items.objects as the sorts left it
BuildTree ==
    /\ tree = None
    /\ LET built == BvhNodeNew(items)
       IN  /\ tree' = [node |-> built.node, given |-> items.objects]
           /\ items' = [items EXCEPT !.objects = built.objects]

BuildNext ==
    \/ ItemAdd /\ BuildOnly
    \/ BuildTree /\ BuildOnly

SpecBuild == BuildInit /\ [][BuildNext]_vars

\* The build was over a list of at least one object.
BuiltOverSome == tree # None /\ Len(tree.given) >= 1

RECURSIVE LeafSlots(_)
\* The contents of the left and right slots that hold objects, left to right.
LeafSlots(node) ==
    IF node.kind = "bvh" THEN LeafSlots(node.left) \o LeafSlots(node.right)
    ELSE <<node>>

RECURSIVE LoneObjects(_)
\* The objects that fill both slots of a node.
LoneObjects(node) ==
    IF node.kind # "bvh" THEN {}
    ELSE IF node.left.kind # "bvh" /\ node.left = node.right THEN {node.left}
    ELSE LoneObjects(node.left) \cup LoneObjects(node.right)

\* How often object occurs in the sequence.
Count(sequence, object) == Cardinality({k \in 1..Len(sequence) : sequence[k] = object})

\* C18: the leaf slots of the tree built over n >= 1 objects hold the objects
\* of the list and nothing else, each object in one slot, or in the two
\* slots of one node when it is alone in its range; the list after the build
\* is a permutation of the list before it.
C18_LeavesAreObjects ==
    BuiltOverSome =>
        LET slots == LeafSlots(tree.node)
            given == tree.given
        IN  /\ \A k \in 1..Len(slots) : Count(given, slots[k]) = 1
            /\ \A k \in 1..Len(given) :
                   Count(slots, given[k])
                       = (IF given[k] \in LoneObjects(tree.node) THEN 2 ELSE 1)
            /\ Len(items.objects) = Len(given)
            /\ \A k \in 1..Len(given) : Count(items.objects, given[k]) = 1

\* Five objects given in an order the build changes: the ranges are of 2 and
\* of 3 objects, and one object is alone in its range.
C18_Witness ==
    /\ BuiltOverSome
    /\ Len(tree.given) = 5
    /\ items.objects # tree.given
    /\ Cardinality(LoneObjects(tree.node)) = 1
    /\ Len(LeafSlots(tree.node)) = 6

RECURSIVE Depth(_)
\* The number of BVHNode levels above the deepest object.
Depth(node) ==
    IF node.kind # "bvh" THEN 0
    ELSE LET l == Depth(node.left)
             r == Depth(node.right)
         IN  1 + (IF l >= r THEN l ELSE r)

RECURSIVE CeilLog2(_)
\* The least k with 2^k >= n, for n >= 1
CeilLog2(n) == IF n <= 1 THEN 0 ELSE 1 + CeilLog2((n + 1) \div 2)

\* C19 as stated: the tree built over n >= 1 objects has depth ceil(log2 n).
C19_Original == BuiltOverSome => Depth(tree.node) = CeilLog2(Len(tree.given))

\* C19: the tree built over n >= 2 objects has depth ceil(log2 n), wherever
\* the boxes of the objects are; the tree built over one object has depth 1,
\* the object filling both slots of the root.
C19_Depth ==
    BuiltOverSome =>
        Depth(tree.node)
            = (IF Len(tree.given) = 1 THEN 1 ELSE CeilLog2(Len(tree.given)))

\* Five objects, all at the same place: depth 3.
C19_Witness ==
    /\ BuiltOverSome
    /\ Len(tree.given) = 5
    /\ \A k \in 1..5 : tree.given[k].center.origin = V(0, 5, 0)
    /\ Depth(tree.node) = 3

(***************************************************************************)
(* Translate::hit and RotateY::hit around a sphere, a quad or another      *)
(* wrapper.                                                                *)
(***************************************************************************)
Offsets == {V(0, 0, 0), V(1, 0, -1), Vec3(F(1, 2), I(2), Zero)}

\* theta of 0, 90 and 180 degrees, and the angles of sine 3/5 and -4/5
Angles ==
    {Angle(Zero, One), Angle(One, Zero), Angle(Zero, I(-1)),
     Angle(F(3, 5), F(4, 5)), Angle(F(-4, 5), F(3, 5))}

WrappedInputs ==
    {SphereStationary(V(0, 0, 0), One, 1),
     SphereMoving(V(0, 0, 0), V(0, 2, 0), One, 2),
     QuadNew(V(-1, -1, 1), V(2, 0, 0), V(0, 2, 0), 3),
     QuadNew(V(0, 0, 0), V(0, 1, 0), V(4, 0, 3), 4),
     RotateYNew(QuadNew(V(-1, -1, 1), V(2, 0, 0), V(0, 2, 0), 3),
                Angle(F(3, 5), F(4, 5))),
     TranslateNew(SphereStationary(V(0, 0, 0), One, 1), V(1, 0, -1))}

WrapperRays ==
    {Ray(origin, direction, time) :
        origin \in {V(0, 0, 3), V(0, 0, 0), V(1, 0, 2), Vec3(F(1, 2), F(1, 2), I(3))},
        direction \in {V(0, 0, -1), V(0, 0, -2), V(1, 0, 0), V(0, 0, 0),
                       Vec3(F(3, 5), Zero, F(-4, 5))},
        time \in {Zero, One}}

WrapperRanges ==
    {Interval(F(1, 1000), Inf), Interval(Zero, I(2)), Interval(I(2), I(4)),
     IntervalUniverse}

RECURSIVE TakesExactRoots(_, _)
\* Every square root Sphere::hit takes below the object for the ray is exact.
TakesExactRoots(object, ray) ==
    CASE object.kind = "sphere" ->
             FLt(Discriminant(object, ray), Zero) \/ ExactSqrt(Discriminant(object, ray))
      [] object.kind = "quad" -> TRUE
      [] object.kind = "translate" ->
             TakesExactRoots(object.object,
                             Ray(VSub(ray.origin, object.offset), ray.direction, ray.time))
      [] object.kind = "rotate_y" ->
             LET Forward(p) ==
                     Vec3(FSub(FMul(object.cos_theta, p.x), FMul(object.sin_theta, p.z)),
                          p.y,
                          FAdd(FMul(object.sin_theta, p.x), FMul(object.cos_theta, p.z)))
             IN  TakesExactRoots(object.object,
                                 Ray(Forward(ray.origin), Forward(ray.direction), ray.time))
      [] object.kind = "medium" -> TakesExactRoots(object.boundary, ray)
      [] object.kind = "list" ->
             \A n \in 1..Len(object.objects) : TakesExactRoots(object.objects[n], ray)
      [] object.kind = "bvh" ->
             TakesExactRoots(object.left, ray) /\ TakesExactRoots(object.right, ray)

CallTranslateHit ==
    /\ call = None
    /\ \E object \in WrappedInputs, offset \in Offsets, ray \in WrapperRays,
          interval \in WrapperRanges :
           /\ TakesExactRoots(TranslateNew(object, offset), ray)
           /\ call' = [fn |-> "Translate::hit", object |-> TranslateNew(object, offset),
                       ray |-> ray, interval |-> interval,
                       res |-> TranslateHit(TranslateNew(object, offset), ray, interval)]

CallRotateYHit ==
    /\ call = None
    /\ \E object \in WrappedInputs, theta \in Angles, ray \in WrapperRays,
          interval \in WrapperRanges :
           /\ TakesExactRoots(RotateYNew(object, theta), ray)
           /\ call' = [fn |-> "RotateY::hit", object |-> RotateYNew(object, theta),
                       ray |-> ray, interval |-> interval,
                       res |-> RotateYHit(RotateYNew(object, theta), ray, interval)]

FrameNext ==
    \/ CallTranslateHit /\ CallOnly
    \/ CallRotateYHit /\ CallOnly
    \/ CallReturn /\ CallOnly

SpecFrame == CallInit /\ [][FrameNext]_vars

TranslateCall == call # None /\ call.fn = "Translate::hit"

RotateYCall == call # None /\ call.fn = "RotateY::hit"

\* The ray of the call in the frame of the wrapped object: moved back by the
\* offset, or turned by -theta about the y axis.
LocalRay ==
    LET Turned(p) ==
            Vec3(FSub(FMul(call.object.cos_theta, p.x), FMul(call.object.sin_theta, p.z)),
                 p.y,
                 FAdd(FMul(call.object.sin_theta, p.x), FMul(call.object.cos_theta, p.z)))
    IN  IF call.fn = "Translate::hit"
        THEN Ray(VSub(call.ray.origin, call.object.offset), call.ray.direction,
                 call.ray.time)
        ELSE Ray(Turned(call.ray.origin), Turned(call.ray.direction), call.ray.time)

\* what the wrapped object returns for the local ray over the same interval
ChildHit == Hit(call.object.object, LocalRay, call.interval)

\* C21: Translate::hit and RotateY::hit return a hit exactly when the wrapped
\* object returns one for the ray moved into its frame over the same
\* interval; the record keeps the t of the child, and its point is the point
\* of the ray of the call at that t.
C21_WrapperHit ==
    (TranslateCall \/ RotateYCall) =>
        /\ IsHit(call.res) <=> IsHit(ChildHit)
        /\ IsHit(call.res) =>
               /\ call.res.t = ChildHit.t
               /\ call.res.point = At(call.ray, call.res.t)

\* RotateY::hit has returned a hit on a quad turned by the angle of sine 3/5,
\* at a point that differs from the one the quad reported.
C21_Witness ==
    /\ RotateYCall
    /\ call.object.sin_theta = F(3, 5)
    /\ call.object.object.kind = "quad"
    /\ IsHit(call.res)
    /\ call.res.point # ChildHit.point
    /\ call.res.t # Zero

(***************************************************************************)
(* ConstantMedium::hit inside a sphere, a moved sphere and a box, for rays *)
(* that start outside or inside the boundary, touch it or miss it.         *)
(***************************************************************************)
\* box3d
Box3d(a, b, material) ==
    LET Parts(min, max, dx, dy, dz) ==
            <<<<Vec3(min.x, min.y, max.z), dx, dy>>,
              <<Vec3(max.x, min.y, max.z), VNeg(dz), dy>>,
              <<Vec3(max.x, min.y, min.z), VNeg(dx), dy>>,
              <<Vec3(min.x, min.y, min.z), dz, dy>>,
              <<Vec3(min.x, max.y, max.z), dx, VNeg(dz)>>,
              <<Vec3(min.x, min.y, min.z), dx, dz>>>>
        Corners(min, max) ==
            Parts(min, max,
                  Vec3(FSub(max.x, min.x), Zero, Zero),
                  Vec3(Zero, FSub(max.y, min.y), Zero),
                  Vec3(Zero, Zero, FSub(max.z, min.z)))
        Sides(parts) ==
            [n \in 1..6 |->
                CHOOSE side \in {QuadNew(p[1], p[2], p[3], material) : p \in {parts[n]}} : TRUE]
        Fill(sides) ==
            LET Added[n \in 0..6] ==
                    IF n = 0 THEN HittableListNew
                    ELSE CHOOSE added \in {HittableListAdd(sofar, sides[n]) :
                                           sofar \in {Added[n - 1]}} : TRUE
            IN  Added[6]
    IN  CHOOSE box \in {Fill(Sides(parts)) :
                        parts \in {Corners(c[1], c[2]) : c \in {<<VMin(a, b), VMax(a, b)>>}}} : TRUE

Boundaries ==
    {SphereStationary(V(0, 0, 0), One, 1),
     TranslateNew(SphereStationary(V(0, 0, 0), One, 1), V(0, 0, -1)),
     Box3d(V(1, 1, 1), V(-1, -1, -1), 1),
     QuadNew(V(-1, -1, 1), V(2, 0, 0), V(0, 2, 0), 3)}

Densities == {One, I(2), F(1, 4)}

\* values of rand::random::<f64>().ln(): the draw 0 gives -inf, and no draw
\* of [0, 1) gives 0
LnRandoms == {NegInf, I(-4), I(-1), F(-1, 2), F(-1, 1000)}

MediumRays ==
    {Ray(origin, direction, Zero) :
        origin \in {V(0, 0, 3), V(0, 0, 0), V(1, 0, 3), V(3, 0, 3)},
        direction \in {V(0, 0, -1), V(0, 0, -2), V(0, 0, 1), V(0, 0, 0)}}

MediumRanges ==
    {Interval(F(1, 1000), Inf), Interval(Zero, I(3)), Interval(I(3), I(5)),
     Interval(F(1, 2), F(3, 4)), IntervalUniverse, IntervalEmpty}

CallConstantMediumHit ==
    /\ call = None
    /\ \E boundary \in Boundaries, density \in Densities, ln_random \in LnRandoms,
          ray \in MediumRays, interval \in MediumRanges :
           LET medium ==
                   ConstantMediumNew(boundary, density, SolidColor(Color(One, One, One)),
                                     ln_random)
           IN  /\ TakesExactRoots(medium, ray)
               /\ call' = [fn |-> "ConstantMedium::hit", object |-> medium,
                           density |-> density, ray |-> ray, interval |-> interval,
                           res |-> ConstantMediumHit(medium, ray, interval)]

MediumNext ==
    \/ CallConstantMediumHit /\ CallOnly
    \/ CallReturn /\ CallOnly

SpecMedium == CallInit /\ [][MediumNext]_vars

MediumCall == call # None /\ call.fn = "ConstantMedium::hit"

\* the two crossings of the boundary by the ray of the call
Entry == Hit(call.object.boundary, call.ray, IntervalUniverse)

Exit == Hit(call.object.boundary, call.ray, Interval(FAdd(Entry.t, ExitGap), Inf))

CrossedTwice == IsHit(Entry) /\ IsHit(Exit)

\* max(entry, interval.min, 0) and min(exit, interval.max)
ClampedEntry == FMax(FMax(Entry.t, call.interval.min), Zero)

ClampedExit == FMin(Exit.t, call.interval.max)

\* the length of the ray inside the boundary between the clamped crossings
LengthInside == FMul(FSub(ClampedExit, ClampedEntry), Length(call.ray.direction))

\* -(1 / density) * ln(U)
SampledDistance == FMul(FNeg(FDiv(One, call.density)), call.object.ln_random)

\* C22: ConstantMedium::hit with positive density returns None when the
\* boundary is not crossed twice or the sampled distance exceeds the length
\* of the ray inside the boundary between the clamped entry and exit;
\* otherwise it returns a record whose t lies between the clamped entry and
\* the clamped exit and whose material is the phase function of the medium.
C22_MediumHit ==
    (MediumCall /\ FLt(Zero, call.density)) =>
        IF ~CrossedTwice \/ FLt(LengthInside, SampledDistance)
        THEN call.res = NoHit
        ELSE /\ IsHit(call.res)
             /\ FLe(ClampedEntry, call.res.t)
             /\ FLe(call.res.t, ClampedExit)
             /\ call.res.material = call.object.phase_function

\* A ray that starts inside the boundary scatters before the exit, which the
\* interval of the query cuts short.
C22_Witness ==
    /\ MediumCall
    /\ CrossedTwice
    /\ FLt(Entry.t, Zero)
    /\ FLt(call.interval.max, Exit.t)
    /\ IsHit(call.res)
    /\ FLt(ClampedEntry, call.res.t)

(***************************************************************************)
(* The integers of a text written by write_color, read back.               *)
(***************************************************************************)
DigitValue(character) == CHOOSE k \in 0..9 : Decimal(k) = <<character>>

RECURSIVE ReadNumbers(_, _, _)
\* the numbers of the text, each ended by a space or a line break
ReadNumbers(text, current, numbers) ==
    IF text = <<>> THEN numbers
    ELSE IF Head(text) \in {" ", "\n"}
         THEN ReadNumbers(Tail(text), 0, Append(numbers, current))
    ELSE ReadNumbers(Tail(text), 10 * current + DigitValue(Head(text)), numbers)

WriteCall == call # None /\ call.fn = "write_color"

\* the three integers written by the call and the channels they stand for
WrittenBytes == ReadNumbers(call.res, 0, <<>>)

ChannelsOf(pixel) == <<pixel.x, pixel.y, pixel.z>>

\* C23: for every colour, with negative, greater-than-one and NaN channels
\* among them, write_color writes three integers of 0..255: a channel <= 0
\* is written as 0, a channel >= 1 as 255, and of two channels the one that
\* is not the larger is not written as the larger integer.
C23_ByteRange ==
    WriteCall =>
        LET bytes == WrittenBytes
            channel == ChannelsOf(call.pixel)
        IN  /\ Len(bytes) = 3
            /\ \A k \in 1..3 :
                   /\ bytes[k] \in 0..255
                   /\ FLe(channel[k], Zero) => bytes[k] = 0
                   /\ FLe(One, channel[k]) => bytes[k] = 255
            /\ \A k \in 1..3, l \in 1..3 :
                   FLe(channel[k], channel[l]) => bytes[k] <= bytes[l]

\* A colour with a NaN, a negative and a greater-than-one channel was
\* written.
C23_Witness ==
    /\ WriteCall
    /\ IsNaN(call.pixel.x)
    /\ FLt(call.pixel.y, Zero)
    /\ FLt(One, call.pixel.z)
    /\ WrittenBytes = <<0, 0, 255>>

(***************************************************************************)
(* Isotropic::scatter                                                      *)
(***************************************************************************)
\* Isotropic::scatter, with the random unit vector it draws
IsotropicScatter(material, ray_in, record, random) ==
    Scattered(TextureValue(material.texture, record.u, record.v, record.point),
              Ray(record.point, random, ray_in.time))

CallIsotropicScatter ==
    /\ call = None
    /\ \E texture \in TextureInputs, ray_in \in RaysIn, record \in RecordInputs,
          random \in RandomUnitVector :
           call' = [fn |-> "Isotropic::scatter", material |-> IsotropicNew(texture),
                    ray_in |-> ray_in, record |-> record, random |-> random,
                    res |-> IsotropicScatter(IsotropicNew(texture), ray_in, record,
                                             random)]

IsotropicNext ==
    \/ CallIsotropicScatter /\ CallOnly
    \/ CallReturn /\ CallOnly

SpecIsotropic == CallInit /\ [][IsotropicNext]_vars

IsotropicCall == call # None /\ call.fn = "Isotropic::scatter"

\* the signs of the components of the vector: -1, 0 or 1 each
Octant(a) == <<Sgn(a.x.n), Sgn(a.y.n), Sgn(a.z.n)>>

\* C24 as claimed: Isotropic::scatter always returns a scattered ray whose
\* direction is a unit vector, and every octant, those with negative x, y or
\* z among them, holds a possible outcome of Vec3::random_unit_vector.
C24_AllOctants ==
    IsotropicCall =>
        /\ call.res.scatters
        /\ LengthSquared(call.res.ray.direction) = One
        /\ \A sx \in {-1, 1}, sy \in {-1, 1}, sz \in {-1, 1} :
               \E outcome \in RandomUnitVector : Octant(outcome) = <<sx, sy, sz>>

(***************************************************************************)
(* Hittable::hit on one object of every implementing type.                 *)
(***************************************************************************)
RECURSIVE ListOf(_)
\* a HittableList the objects were added to one after the other
ListOf(objects) ==
    IF objects = <<>> THEN HittableListNew
    ELSE HittableListAdd(ListOf(SubSeq(objects, 1, Len(objects) - 1)),
                         objects[Len(objects)])

VariantInputs ==
    LET Plain ==
            [ball |-> SphereStationary(V(0, 0, 0), One, 1),
             moving |-> SphereMoving(V(0, 0, 0), V(0, 2, 0), One, 2),
             quad |-> QuadNew(V(-1, -1, 1), V(2, 0, 0), V(0, 2, 0), 3),
             box |-> Box3d(V(-1, -1, -1), V(1, 1, 1), 4),
             tilted |-> QuadNew(V(0, 0, 0), V(0, 1, 0), V(4, 0, 3), 4),
             inverted |-> SphereStationary(V(0, 0, 1), I(-1), 1),
             white |-> SolidColor(Color(One, One, One))]
        Wrapped(plain) ==
            [moved |-> TranslateNew(plain.ball, V(1, 0, -1)),
             turned |-> RotateYNew(plain.quad, Angle(F(3, 5), F(4, 5))),
             turned_box |-> RotateYNew(plain.box, Angle(F(3, 5), F(4, 5))),
             thin |-> ConstantMediumNew(plain.ball, One, plain.white, I(-1))]
        Lists(plain, wrapped) ==
            {ListOf(objects) : objects \in {<<plain.ball, plain.quad>>,
                                            <<plain.quad, plain.ball>>,
                                            <<plain.quad, wrapped.thin>>}}
        Trees(plain, wrapped) ==
            {BvhNodeNew(list_).node :
                list_ \in {ListOf(objects) :
                              objects \in {<<plain.ball, plain.quad>>,
                                           <<plain.quad, wrapped.moved, plain.ball>>}}}
        Media(plain) ==
            {ConstantMediumNew(m[1], m[2], plain.white, ln_random) :
                m \in {<<plain.ball, One>>, <<plain.box, I(2)>>}, ln_random \in LnRandoms}
        Variants(plain, wrapped) ==
            {plain.ball, plain.moving, plain.quad, plain.box, plain.tilted, plain.inverted,
             wrapped.moved, wrapped.turned,
             RotateYNew(wrapped.moved, Angle(F(-4, 5), F(3, 5))),
             TranslateNew(wrapped.turned_box, V(0, 0, -1))}
                \cup Lists(plain, wrapped) \cup Trees(plain, wrapped) \cup Media(plain)
    IN  UNION {UNION {Variants(plain, wrapped) : wrapped \in {Wrapped(plain)}} :
               plain \in {Plain}}

VariantRays ==
    {Ray(origin, direction, time) :
        origin \in {V(0, 0, 3), V(0, 0, 0), V(1, 0, 3), V(3, 0, 3), V(0, 2, 3)},
        direction \in {V(0, 0, -1), V(0, 0, -2), V(0, 0, 1), V(0, 0, 0),
                       Vec3(F(-3, 5), Zero, F(-4, 5))},
        time \in {Zero, F(1, 2), One}}

\* query intervals: open-ended, bounded, of one point, and with min > max
VariantRanges ==
    {Interval(F(1, 1000), Inf), Interval(Zero, I(2)), Interval(I(2), I(4)),
     Interval(One, One), Interval(F(1, 2), F(3, 4)), Interval(I(-3), Zero),
     IntervalUniverse, IntervalEmpty}

CallHittableHit ==
    /\ call = None
    /\ \E object \in VariantInputs, ray \in VariantRays, interval \in VariantRanges :
           /\ TakesExactRoots(object, ray)
           /\ call' = [fn |-> "Hittable::hit", object |-> object, ray |-> ray,
                       interval |-> interval, res |-> Hit(object, ray, interval)]

VariantNext ==
    \/ CallHittableHit /\ CallOnly
    \/ CallReturn /\ CallOnly

SpecVariant == CallInit /\ [][VariantNext]_vars

VariantCall == call # None /\ call.fn = "Hittable::hit"

\* C25: for a Sphere, a Quad, a ConstantMedium with positive density, a
\* Translate, a RotateY, a HittableList and a BVHNode, and every query
\* interval with min <= max, a record returned by hit has
\* interval.min <= t <= interval.max.
C25_TWithinInterval ==
    (VariantCall /\ FLe(call.interval.min, call.interval.max) /\ IsHit(call.res)) =>
        /\ FLe(call.interval.min, call.res.t)
        /\ FLe(call.res.t, call.interval.max)

\* A list has returned the record of a hit at the upper end of the interval.
C25_Witness ==
    /\ VariantCall
    /\ call.object.kind = "list"
    /\ IsHit(call.res)
    /\ call.res.t = call.interval.max
    /\ FLt(call.interval.min, call.interval.max)

\* Every interval of the inner box lies within the one of the outer box.
BoxWithin(inner, outer) ==
    LET Within(i, o) == FLe(o.min, i.min) /\ FLe(i.max, o.max)
    IN  Within(inner.x, outer.x) /\ Within(inner.y, outer.y) /\ Within(inner.z, outer.z)

\* C26: the point of a hit returned by a stationary sphere, by a moving
\* sphere asked with a ray time of [0, 1], by a quad, a Translate, a RotateY,
\* a HittableList filled through add or a BVH node lies inside the
\* bounding_box() of that object, and the box of a BVH node contains the
\* boxes of both children.
C26_PointInsideBox ==
    (VariantCall /\ call.object.kind # "medium") =>
        /\ IsHit(call.res) => BoxContains(BoundingBox(call.object), call.res.point)
        /\ call.object.kind = "bvh" =>
               /\ BoxWithin(BoundingBox(call.object.left), BoundingBox(call.object))
               /\ BoxWithin(BoundingBox(call.object.right), BoundingBox(call.object))

\* A RotateY has returned a hit at a point that lies outside the box of the
\* object it wraps.
C26_Witness ==
    /\ VariantCall
    /\ call.object.kind = "rotate_y"
    /\ IsHit(call.res)
    /\ ~BoxContains(BoundingBox(call.object.object), call.res.point)

\* Parameters at which the ray of the call is looked at.
SampleParameters == {F(k, 4) : k \in 1..10}

\* strictly inside the box on all three axes
StrictlyInsideBox(box, p) ==
    Surrounds(box.x, p.x) /\ Surrounds(box.y, p.y) /\ Surrounds(box.z, p.z)

\* At some parameter strictly inside the query interval the ray of the call
\* is strictly inside the box.
MeetsBox ==
    \E t \in SampleParameters :
        Surrounds(slab.t, t) /\ StrictlyInsideBox(slab.box, At(slab.ray, t))

\* C27: AABB::hit never rejects a ray that meets the box: if at some t
\* strictly inside the query interval ray.at(t) lies strictly inside the box
\* on all three axes, AABB::hit returns true, also when a component of the
\* direction is zero.
C27_NoFalseReject ==
    (slab # None /\ MeetsBox) => slab.res

\* A ray with a zero direction component meets the box and is accepted.
C27_Witness ==
    /\ slab # None
    /\ MeetsBox
    /\ slab.ray.direction.x = Zero
    /\ slab.ray.direction.y # Zero
    /\ slab.res

(***************************************************************************)
(* The recursion of BVHNode::from_hittable_list, call by call.  Which      *)
(* ranges are split depends on start and end alone, so a list is given by  *)
(* its length.  stack holds the ranges of the calls in progress, the       *)
(* innermost last, each with the number of children it has built.          *)
(***************************************************************************)
\* the longest list a build is started on
MaxList == 12

\* the calls of from_hittable_list that may be in progress at once
MaxStack == 6

RangeFrame(start, end) == [start |-> start, end |-> end, built |-> 0]

\* BVHNode::new(&mut world) for a world of size objects
CallBvhNodeNew ==
    /\ call = None
    /\ \E size \in 0..MaxList :
           call' = [fn |-> "BVHNode::new", size |-> size,
                    stack |-> <<RangeFrame(0, size)>>, returned |-> FALSE]

BuildCall == call # None /\ call.fn = "BVHNode::new"

\* the innermost call in progress
InnerFrame == call.stack[Len(call.stack)]

\* span is 1 or 2: left and right are objects of the range
NonSplitting(frame) == frame.end - frame.start \in {1, 2}

\* the match arm of every other span: from_hittable_list(objects, start, mid)
\* and then from_hittable_list(objects, mid, end)
FromHittableListRecurse ==
    /\ BuildCall
    /\ call.stack # <<>>
    /\ Len(call.stack) < MaxStack
    /\ ~NonSplitting(InnerFrame)
    /\ InnerFrame.built < 2
    /\ LET mid == InnerFrame.start + (InnerFrame.end - InnerFrame.start) \div 2
       IN  call' = [call EXCEPT !.stack =
                        Append(@, IF InnerFrame.built = 0
                                  THEN RangeFrame(InnerFrame.start, mid)
                                  ELSE RangeFrame(mid, InnerFrame.end))]

\* BVHNode { left, right, bbox } is returned to the call that asked for it
FromHittableListReturn ==
    /\ BuildCall
    /\ call.stack # <<>>
    /\ NonSplitting(InnerFrame) \/ InnerFrame.built = 2
    /\ LET outer == SubSeq(call.stack, 1, Len(call.stack) - 1)
       IN  IF outer = <<>>
           THEN call' = [call EXCEPT !.stack = <<>>, !.returned = TRUE]
           ELSE call' = [call EXCEPT !.stack =
                             [outer EXCEPT ![Len(outer)].built = @ + 1]]

\* the caller drops the node
BvhNodeNewReturn ==
    /\ BuildCall
    /\ call.returned
    /\ call' = None

RecursionNext ==
    \/ CallBvhNodeNew /\ CallOnly
    \/ FromHittableListRecurse /\ CallOnly
    \/ FromHittableListReturn /\ CallOnly
    \/ BvhNodeNewReturn /\ CallOnly

SpecRecursion == CallInit /\ [][RecursionNext]_vars

\* C28 as claimed: BVHNode::new terminates for every HittableList, the list
\* of no objects among them: each recursive call of from_hittable_list works
\* on a strictly smaller range than the call that made it.
C28_SmallerRanges ==
    BuildCall =>
        \A k \in 2..Len(call.stack) :
            call.stack[k].end - call.stack[k].start
                < call.stack[k - 1].end - call.stack[k - 1].start

(***************************************************************************)
(* ImageTexture::value over decoded images of a few pixels.                *)
(***************************************************************************)
\* the largest width and height of an image
MaxImage == 3

\* A decoded image: the bytes of the pixel at column i and row j.
DecodedImage(width, height) ==
    [width |-> width, height |-> height,
     pixels |-> [i \in 0..(width - 1), j \in 0..(height - 1) |->
                    <<(80 * i) % 256, (80 * j) % 256, 255>>]]

\* x as u32: rounded towards zero, 0 for a NaN and for a negative x
AsU32(x) == IF IsNaN(x) \/ x.n < 0 THEN 0 ELSE x.n \div x.d

\* The call ends in a panic.
Panics == [panics |-> TRUE]

\* GenericImageView::get_pixel: panics when (i, j) is out of bounds
GetPixel(image, i, j) ==
    IF i < image.width /\ j < image.height THEN image.pixels[i, j] ELSE Panics

\* the pixel indices ImageTexture::value computes for u and v
PixelIndex(image, u, v) ==
    LET Index(cu, cv) ==
            [i |-> AsU32(FMul(cu, I(image.width))), j |-> AsU32(FMul(cv, I(image.height)))]
    IN  Index(Clamp(Interval(Zero, One), u), FSub(One, Clamp(Interval(Zero, One), v)))

\* ImageTexture::value
ImageTextureValue(image, u, v) ==
    LET Scaled(pixel) ==
            IF pixel = Panics THEN Panics
            ELSE Color(FMul(F(1, 255), I(pixel[1])), FMul(F(1, 255), I(pixel[2])),
                       FMul(F(1, 255), I(pixel[3])))
        Lookup(index) == Scaled(GetPixel(image, index.i, index.j))
    IN  IF image.height <= 0 THEN Color(Zero, One, Zero)
        ELSE Lookup(PixelIndex(image, u, v))

\* u and v as Sphere::get_sphere_uv and Quad::hit report them, both ends of
\* [0, 1] among them, and values outside [0, 1]
TextureCoordinates == {F(-1, 2), Zero, F(1, 4), F(1, 2), F(3, 4), One, I(2), NaN}

CallImageTextureValue ==
    /\ call = None
    /\ \E width \in 1..MaxImage, height \in 0..MaxImage,
          u \in TextureCoordinates, v \in TextureCoordinates :
           call' = [fn |-> "ImageTexture::value", image |-> DecodedImage(width, height),
                    u |-> u, v |-> v,
                    index |-> PixelIndex(DecodedImage(width, height), u, v),
                    res |-> ImageTextureValue(DecodedImage(width, height), u, v)]

ImageNext ==
    \/ CallImageTextureValue /\ CallOnly
    \/ CallReturn /\ CallOnly

SpecImage == CallInit /\ [][ImageNext]_vars

\* C29 as claimed: for every u and v the pixel index ImageTexture::value
\* computes has 0 <= i < width and 0 <= j < height, also for u = 1 and for
\* v = 0, and the lookup of the pixel does not read outside the image.
C29_IndexInRange ==
    (call # None /\ call.fn = "ImageTexture::value" /\ call.image.height > 0) =>
        /\ 0 <= call.index.i /\ call.index.i < call.image.width
        /\ 0 <= call.index.j /\ call.index.j < call.image.height
        /\ call.res # Panics

\* The outward normal Sphere::hit and Quad::hit hand to set_face_normal: from
\* the centre of the sphere to the point, over the radius, or the unit
\* normal of the plane of the quad.
OutwardNormal ==
    IF call.fn = "Sphere::hit"
    THEN VDiv(VSub(call.res.point, CenterNow), call.object.radius)
    ELSE PlaneNormal

\* C30: in every record returned by Sphere::hit and Quad::hit, front_face is
\* true exactly when the direction of the ray has a negative dot product
\* with the outward normal, the stored normal is the outward normal when
\* front_face and its negation otherwise, and the stored normal has no
\* positive dot product with the direction of the ray.
C30_FaceNormal ==
    ((SphereCall \/ QuadCall) /\ IsHit(call.res)) =>
        /\ call.res.front_face <=> FLt(Dot(call.ray.direction, OutwardNormal), Zero)
        /\ call.res.normal
               = (IF call.res.front_face THEN OutwardNormal ELSE VNeg(OutwardNormal))
        /\ ~FLt(Zero, Dot(call.res.normal, call.ray.direction))

\* A ray that starts inside a sphere leaves it through the back of the
\* surface: the stored normal is the outward normal turned round.
C30_Witness ==
    /\ SphereCall
    /\ IsHit(call.res)
    /\ ~call.res.front_face
    /\ FLt(Zero, Dot(call.ray.direction, OutwardNormal))
    /\ call.res.normal = VNeg(OutwardNormal)
    /\ call.res.normal # OutwardNormal

=============================================================================
